---- MODULE Spec2Model ----
(***************************************************************************)
(* Sherlock streams (src/Sherlock/sherlock.h): an append-only log behind   *)
(* a persister, published into through the StreamImpl facade or through a  *)
(* StreamPublisher handle moved to an external acquirer, and read by       *)
(* subscriber threads (SubscriberThreadInstance) that wait on the notifier *)
(* under publish_mutex when they have caught up.                           *)
(***************************************************************************)
EXTENDS Integers, Sequences, FiniteSets, TLC

\* ------------------------------------------------------------ bounds ----
MaxEntries == 2
MaxTime == 3
MaxBegin == 1

\* ------------------------------------------------------------- sets ----
Subscribers == {"s1"}
Facades == {"a", "b"}
PubThreads == {"caller", "acquirer"}
\* The optional timestamp of Publish / UpdateHead: <<>> is DefaultTimeArgument.
TimeArgs == {<<>>} \cup {<<t>> : t \in 1..MaxTime}
Ops == {"Publish", "UpdateHead"}
\* The threads that call TerminateSubscription: two threads of the user through
\* AsyncTerminate, the destructor of the scope, the terminate=<id> handler and
\* the destructor of the facade.
UserThreads == {"user", "other"}
TermCallers == UserThreads \cup {"scope", "http", "stream"}

VARIABLES
  entries,                \* persister: the timestamps (us) of the entries, by index
  head,                   \* persister: the head timestamp
  now,                    \* the last value current::time::Now() returned
  below_head,             \* history: an entry was accepted with us <= the head of its time
  publish_mutex,          \* StreamData::publish_mutex: "free" or its owner
  publisher_mutex_,       \* StreamImpl::publisher_mutex_, per facade object
  constructed,            \* which StreamImpl objects have been constructed
  own_data_,              \* StreamImpl::own_data_: does the object own the StreamData
  publisher_,             \* StreamImpl::publisher_: does the slot hold the handle
  authority_,             \* StreamImpl::authority_
  acquirer_publisher,     \* the external acquirer holds the handle
  pub,                    \* publishing threads: position inside Publish/UpdateHead
  sub,                    \* subscriber threads: the locals of ThreadImpl
  terminate_signal,       \* SubscriberThreadInstance::terminate_signal_
  termination_requested,  \* SubscriberThreadInstance::termination_requested_
  subscriber_thread_done, \* SubscriberThread::subscriber_thread_done_
  term,                   \* the position of each caller inside TerminateSubscription
  log,                    \* what each subscriber object has been called with
  terminate_calls,        \* history: the calls of subscriber_.Terminate() made
  scope,                  \* the SubscriberScope of each subscriber, and who holds it
  destructing,            \* the StreamData is in destructing mode
  stream_dtor,            \* the position of the thread inside ~StreamImpl
  http_mutex,             \* http_subscriptions->mutex: "free" or its owner
  subscribers_map,        \* http_subscriptions->subscribers_map: the ids registered
  eraser,                 \* the detached thread a done_callback starts
  req,                    \* the HTTP thread: its position inside ServeDataViaHTTP
  variant,                \* a VariantImpl, its object_, and the operation applied to it
  lines                   \* a GenericStatefulGroupByLines: residual_ and the calls of f_

vars == <<entries, head, now, below_head, publish_mutex, publisher_mutex_, constructed, own_data_,
          publisher_, authority_, acquirer_publisher, pub, sub, terminate_signal, termination_requested,
          subscriber_thread_done, term, log, terminate_calls, scope, destructing, stream_dtor,
          http_mutex, subscribers_map, eraser, req, variant, lines>>

persister_vars == <<entries, head, now, below_head>>
facade_vars == <<constructed, own_data_, publisher_, authority_, acquirer_publisher>>
mutex_vars == <<publish_mutex, publisher_mutex_>>
sub_vars == <<sub, terminate_signal, termination_requested, subscriber_thread_done,
              term, log>>
http_vars == <<destructing, stream_dtor, http_mutex, subscribers_map, eraser, req>>
\* The objects of src/TypeSystem and src/bricks, which no stream touches.
lib_vars == <<variant, lines>>
life_vars == <<lib_vars, terminate_calls, scope, http_vars>>

Max(x, y) == IF x >= y THEN x ELSE y

\* ------------------------------------------------------- persister ----
\* The persister is consumed through its contract: entries carry strictly
\* increasing timestamps, the head is at least the last timestamp.

\* The head of a stream nothing was published into, and the `head` a subscriber
\* starts from: std::chrono::microseconds(-1).
InitialHead == 0 - 1

Size == Len(entries)
LastExists == Len(entries) > 0
LastUs == IF LastExists THEN entries[Len(entries)] ELSE InitialHead
CurrentHead == head

\* HeadAndLastPublishedIndexAndTimestamp(): one atomic snapshot.
HeadAndLast == [head |-> head, size |-> Len(entries)]

\* The timestamp Publish assigns: the one supplied, or the current time `t`
\* clamped to exceed the last entry's.
PublishUs(arg, t) == IF arg = <<>> THEN Max(t, LastUs + 1) ELSE arg[1]

\* A persister that accepts any timestamp.
PublishAccepted_Any(us) == TRUE

\* Publish with a supplied timestamp fails with InconsistentTimestamp unless
\* us > last.us.
PublishAccepted(us) == (~LastExists) \/ us > LastUs

\* A persister whose head is the timestamp of the last accepted entry.
HeadAfterPublish_Overwrite(us) == us

\* The head after a publish at `us`: the head never moves backward.
HeadAfterPublish(us) == Max(head, us)

\* UpdateHead with a supplied timestamp fails with InconsistentTimestamp when
\* us < head or us <= last.us.
UpdateHeadAccepted(arg) ==
  arg = <<>> \/ (arg[1] >= head /\ ((~LastExists) \/ arg[1] > LastUs))

\* UpdateHead advances the head to max(head, us or now).
HeadAfterUpdate(arg, t) == Max(head, IF arg = <<>> THEN t ELSE arg[1])

\* current::time::Now(): strictly increasing over the calls made.
NowValues == (now + 1)..MaxTime

\* -------------------------------------------------------- notifier ----
\* NotifyAllOfExternalWaitableEvent(): every registered waiter blocked on its
\* condition variable is woken and will re-check its predicate.
NotifyAll(f) ==
  [s \in Subscribers |-> IF f[s].pc = "blocked" THEN [f[s] EXCEPT !.pc = "woken"] ELSE f[s]]

\* ------------------------------------------------------------ Init ----
IdlePub == [pc |-> "idle", op |-> "none", arg |-> <<>>, facade |-> "none", result |-> "none"]
NoSub == [pc |-> "none", begin_idx |-> 0, head |-> InitialHead, index |-> 0, size |-> 0,
          cursor |-> 0, snap_head |-> InitialHead, terminate_sent |-> FALSE,
          response |-> "none"]
\* The query of an HTTP request: the method, and the parameters the URL has or
\* (<<>>) has not.
NoQuery == [method |-> "GET", terminate |-> <<>>, sizeonly |-> FALSE, schema |-> FALSE,
            tail |-> <<>>, recent |-> <<>>, since |-> <<>>, i |-> <<>>, nowait |-> FALSE]
\* The HTTP thread outside ServeDataViaHTTP.
IdleReq == [pc |-> "idle"]

\* StreamImpl(): the facade "a" is constructed with its StreamData, creates the
\* one StreamPublisher and records authority Own; nothing else has started.
InitObjects ==
  /\ below_head = FALSE
  /\ publish_mutex = "free"
  /\ publisher_mutex_ = [f \in Facades |-> "free"]
  /\ constructed = [f \in Facades |-> f = "a"]
  /\ own_data_ = [f \in Facades |-> f = "a"]
  /\ publisher_ = [f \in Facades |-> f = "a"]
  /\ authority_ = [f \in Facades |-> IF f = "a" THEN "Own" ELSE "External"]
  /\ acquirer_publisher = FALSE
  /\ pub = [t \in PubThreads |-> IdlePub]
  /\ sub = [s \in Subscribers |-> NoSub]
  /\ terminate_signal = [s \in Subscribers |-> FALSE]
  /\ termination_requested = [s \in Subscribers |-> FALSE]
  /\ subscriber_thread_done = [s \in Subscribers |-> FALSE]
  /\ term = [c \in TermCallers |-> <<"idle">>]
  /\ log = [s \in Subscribers |-> <<>>]
  /\ terminate_calls = [s \in Subscribers |-> 0]
  /\ scope = [s \in Subscribers |-> "none"]
  /\ destructing = FALSE
  /\ stream_dtor = <<"none">>
  /\ http_mutex = "free"
  /\ subscribers_map = {}
  /\ eraser = [s \in Subscribers |-> "none"]
  /\ req = IdleReq

\* No Variant and no GenericStatefulGroupByLines is in use.
NoVariant == [pc |-> "none"]
NoLines == [pc |-> "none"]
LibsUnused == variant = NoVariant /\ lines = NoLines

\* A stream nothing was published into yet.
Init ==
  /\ entries = <<>>
  /\ head = InitialHead
  /\ now = 0
  /\ InitObjects
  /\ LibsUnused

\* The streams of up to MaxEntries entries: timestamps strictly increasing.
Streams ==
  {es \in UNION {[1..n -> 1..MaxTime] : n \in 0..MaxEntries} :
     \A k \in 1..Len(es) : \A j \in 1..Len(es) : k < j => es[k] < es[j]}

\* A stream that has been published into, the head at its last entry, and the
\* clock at or past it.
InitPublished ==
  /\ entries \in Streams
  /\ head = LastUs
  /\ now \in Max(0, head)..MaxTime
  /\ InitObjects
  /\ LibsUnused

\* A call that has returned or thrown: its outcome stays visible until the
\* thread goes on (Return).
Done(op, f, result) ==
  [pc |-> "done", op |-> op, arg |-> <<>>, facade |-> f, result |-> result]

\* The calls the bounds of the model leave room for: an entry more (or a publish
\* the persister rejects), a later reading of the clock, a later timestamp.
CallFeasible(op, arg) ==
  /\ (op = "Publish" /\ Len(entries) >= MaxEntries) =>
       (arg # <<>> /\ ~PublishAccepted(arg[1]))
  /\ arg = <<>> => now < MaxTime
  /\ (op = "Publish" /\ arg = <<>>) => LastUs < MaxTime

\* ------------------------------------------------- publishing calls ----
\* Co-owners that are never told the owner is going away.
InDestructingMode_Never == FALSE

\* The constructor of ScopeOwnedBySomeoneElse throws InDestructingModeException
\* once the owner is in destructing mode, and so does its operator*.
InDestructingMode == destructing

\* SmartMutexLockGuard<MLS>: locks the mutex for NeedToLock, and is empty for
\* AlreadyLocked.
GuardLocks(mls) == mls = "NeedToLock"

\* The MutexLockStatus StreamImpl::PublishImpl / UpdateHeadImpl pass to the handle.
FacadeMLS == "AlreadyLocked"

\* The MutexLockStatus of a call made on the handle directly: the default.
HandleMLS == "NeedToLock"

\* A facade that delegates without looking at its slot.
FacadeMayPublish_Unchecked(f) == TRUE

\* `if (publisher_)` of StreamImpl::PublishImpl / UpdateHeadImpl.
FacadeMayPublish(f) == publisher_[f]

\* StreamImpl::PublishImpl / UpdateHeadImpl: under publisher_mutex_, delegate to
\* the handle (whose lock guard of publish_mutex follows FacadeMLS), or throw
\* when the slot is empty.
FacadeCall(f, op, arg) ==
  /\ constructed[f]
  /\ pub["caller"].pc = "idle"
  /\ publisher_mutex_[f] = "free"
  /\ IF FacadeMayPublish(f) /\ InDestructingMode
       THEN /\ pub' = [pub EXCEPT !["caller"] = Done(op, f, "StreamInGracefulShutdown")]
            /\ UNCHANGED mutex_vars
       ELSE IF FacadeMayPublish(f)
       THEN /\ CallFeasible(op, arg)
            /\ publisher_mutex_' = [publisher_mutex_ EXCEPT ![f] = "caller"]
            /\ IF GuardLocks(FacadeMLS)
                 THEN publish_mutex = "free" /\ publish_mutex' = "caller"
                 ELSE UNCHANGED publish_mutex
            /\ pub' = [pub EXCEPT !["caller"] =
                         [pc |-> "persist", op |-> op, arg |-> arg, facade |-> f,
                          result |-> "none"]]
       ELSE /\ pub' = [pub EXCEPT !["caller"] =
                         Done(op, f, "PublishToStreamWithReleasedPublisher")]
            /\ UNCHANGED mutex_vars
  /\ UNCHANGED <<life_vars, persister_vars, facade_vars, sub_vars>>

\* The acquirer publishes through the handle it holds: StreamPublisher's
\* PublishImpl / UpdateHeadImpl with the lock guard of publish_mutex, or
\* StreamInGracefulShutdownException when `*data_` throws.
HandleCall(op, arg) ==
  /\ acquirer_publisher
  /\ pub["acquirer"].pc = "idle"
  /\ IF InDestructingMode
       THEN /\ pub' = [pub EXCEPT !["acquirer"] =
                         Done(op, "none", "StreamInGracefulShutdown")]
            /\ UNCHANGED publish_mutex
       ELSE /\ CallFeasible(op, arg)
            /\ IF GuardLocks(HandleMLS)
                 THEN publish_mutex = "free" /\ publish_mutex' = "acquirer"
                 ELSE UNCHANGED publish_mutex
            /\ pub' = [pub EXCEPT !["acquirer"] =
                         [pc |-> "persist", op |-> op, arg |-> arg, facade |-> "none",
                          result |-> "none"]]
  /\ UNCHANGED <<life_vars, persister_vars, publisher_mutex_, facade_vars, sub_vars>>

\* Leaving PublishImpl / UpdateHeadImpl: the lock guards of the call are released.
Released(t) == IF publish_mutex = t THEN "free" ELSE publish_mutex
FacadeReleased(t) ==
  [f \in Facades |-> IF publisher_mutex_[f] = t THEN "free" ELSE publisher_mutex_[f]]

\* A persister that appends before it checks the timestamp.
EntriesAfterPublish_Unchecked(us) == Append(entries, us)

\* The entries after Publish at `us`: a rejected publish leaves them alone.
EntriesAfterPublish(us) == IF PublishAccepted(us) THEN Append(entries, us) ELSE entries

\* The persister call of PublishImpl: an exception leaves through the guards
\* without notifying.
PubPersistPublish(t) ==
  /\ pub[t].pc = "persist"
  /\ pub[t].op = "Publish"
  /\ \E tm \in (IF pub[t].arg = <<>> THEN NowValues ELSE {now}) :
       LET us == PublishUs(pub[t].arg, tm) IN
       /\ now' = tm
       /\ entries' = EntriesAfterPublish(us)
       /\ IF PublishAccepted(us)
            THEN /\ head' = HeadAfterPublish(us)
                 /\ below_head' = (below_head \/ us <= head)
                 /\ pub' = [pub EXCEPT ![t].pc = "notify"]
                 /\ UNCHANGED mutex_vars
            ELSE /\ pub' = [pub EXCEPT ![t] =
                              Done("Publish", pub[t].facade, "InconsistentTimestamp")]
                 /\ publish_mutex' = Released(t)
                 /\ publisher_mutex_' = FacadeReleased(t)
                 /\ UNCHANGED <<head, below_head>>
  /\ UNCHANGED <<life_vars, facade_vars, sub_vars>>

\* The persister call of UpdateHeadImpl.
PubPersistUpdateHead(t) ==
  /\ pub[t].pc = "persist"
  /\ pub[t].op = "UpdateHead"
  /\ \E tm \in (IF pub[t].arg = <<>> THEN NowValues ELSE {now}) :
       /\ now' = tm
       /\ IF UpdateHeadAccepted(pub[t].arg)
            THEN /\ head' = HeadAfterUpdate(pub[t].arg, tm)
                 /\ pub' = [pub EXCEPT ![t].pc = "notify"]
                 /\ UNCHANGED mutex_vars
            ELSE /\ pub' = [pub EXCEPT ![t] =
                              Done("UpdateHead", pub[t].facade, "InconsistentTimestamp")]
                 /\ publish_mutex' = Released(t)
                 /\ publisher_mutex_' = FacadeReleased(t)
                 /\ UNCHANGED head
  /\ UNCHANGED <<life_vars, entries, below_head, facade_vars, sub_vars>>

\* data.notifier.NotifyAllOfExternalWaitableEvent(), and the return.
PubNotify(t) ==
  /\ pub[t].pc = "notify"
  /\ sub' = NotifyAll(sub)
  /\ pub' = [pub EXCEPT ![t] = Done(pub[t].op, pub[t].facade, "ok")]
  /\ publish_mutex' = Released(t)
  /\ publisher_mutex_' = FacadeReleased(t)
  /\ UNCHANGED <<life_vars, persister_vars, facade_vars, terminate_signal, termination_requested,
                 subscriber_thread_done, term, log>>

\* The caller of a finished call goes on.
Return(t) ==
  /\ pub[t].pc = "done"
  /\ pub' = [pub EXCEPT ![t] = IdlePub]
  /\ UNCHANGED <<life_vars, persister_vars, mutex_vars, facade_vars, sub_vars>>

\* ----------------------------------------------- publisher hand-off ----
\* A MovePublisherTo that leaves the authority as it was at construction.
AuthorityAfterMove_Kept == "Own"

\* The authority MovePublisherTo and AcquirePublisher record.
AuthorityAfterMove == "External"
AuthorityAfterAcquire == "Own"

\* StreamImpl::MovePublisherTo(acquirer).
MovePublisherTo(f) ==
  /\ constructed[f]
  /\ pub["caller"].pc = "idle"
  /\ publisher_mutex_[f] = "free"
  /\ IF publisher_[f]
       THEN /\ acquirer_publisher' = TRUE
            /\ publisher_' = [publisher_ EXCEPT ![f] = FALSE]
            /\ authority_' = [authority_ EXCEPT ![f] = AuthorityAfterMove]
            /\ pub' = [pub EXCEPT !["caller"] = Done("MovePublisherTo", f, "ok")]
       ELSE /\ pub' = [pub EXCEPT !["caller"] =
                         Done("MovePublisherTo", f, "PublisherAlreadyReleased")]
            /\ UNCHANGED <<acquirer_publisher, publisher_, authority_>>
  /\ UNCHANGED <<life_vars, persister_vars, mutex_vars, constructed, own_data_, sub_vars>>

\* StreamImpl::AcquirePublisher(publisher): the unique_ptr passed holds the
\* handle (`given`, moved out of the acquirer) or nothing. It is taken by value:
\* what it holds is installed, or destroyed with the argument on the throwing path.
AcquirePublisher(f, given) ==
  /\ constructed[f]
  /\ pub["acquirer"].pc = "idle"
  /\ given => acquirer_publisher
  /\ publisher_mutex_[f] = "free"
  /\ IF ~publisher_[f]
       THEN /\ publisher_' = [publisher_ EXCEPT ![f] = given]
            /\ authority_' = [authority_ EXCEPT ![f] = AuthorityAfterAcquire]
            /\ pub' = [pub EXCEPT !["acquirer"] = Done("AcquirePublisher", f, "ok")]
       ELSE /\ pub' = [pub EXCEPT !["acquirer"] =
                         Done("AcquirePublisher", f, "PublisherAlreadyOwned")]
            /\ UNCHANGED <<publisher_, authority_>>
  /\ acquirer_publisher' = (acquirer_publisher /\ ~given)
  /\ UNCHANGED <<life_vars, persister_vars, mutex_vars, constructed, own_data_, sub_vars>>

\* StreamImpl(StreamImpl&& rhs): a new facade object takes the data, the slot and
\* the authority of `rhs`. No call is in progress on either object.
MoveConstruct(g, rhs) ==
  /\ ~constructed[g]
  /\ constructed[rhs]
  /\ own_data_[rhs]
  /\ \A t \in PubThreads : pub[t].pc = "idle"
  /\ constructed' = [constructed EXCEPT ![g] = TRUE]
  /\ own_data_' = [own_data_ EXCEPT ![g] = own_data_[rhs], ![rhs] = FALSE]
  /\ publisher_' = [publisher_ EXCEPT ![g] = publisher_[rhs], ![rhs] = FALSE]
  /\ authority_' = [authority_ EXCEPT ![g] = authority_[rhs], ![rhs] = "External"]
  /\ UNCHANGED <<life_vars, persister_vars, mutex_vars, acquirer_publisher, pub, sub_vars>>

\* StreamImpl::operator=(StreamImpl&& rhs): the data, the slot and the authority
\* of `rhs` replace those of the object assigned to; what its slot held is
\* destroyed. `rhs` owns the stream's data (an assignment from an object that
\* owns none would end the stream).
MoveAssign(g, rhs) ==
  /\ g # rhs
  /\ constructed[g]
  /\ constructed[rhs]
  /\ own_data_[rhs]
  /\ \A t \in PubThreads : pub[t].pc = "idle"
  /\ own_data_' = [own_data_ EXCEPT ![g] = own_data_[rhs], ![rhs] = FALSE]
  /\ publisher_' = [publisher_ EXCEPT ![g] = publisher_[rhs], ![rhs] = FALSE]
  /\ authority_' = [authority_ EXCEPT ![g] = authority_[rhs], ![rhs] = "External"]
  /\ UNCHANGED <<life_vars, persister_vars, mutex_vars, constructed, acquirer_publisher, pub,
                 sub_vars>>

\* --------------------------------------------------- subscriber loop ----
\* The SubscriberThreadInstance of subscriber `s`: the thread starts in Thread(),
\* with the locals of ThreadImpl.
ThreadStarted(s, b) ==
  [sub EXCEPT ![s] = [NoSub EXCEPT !.pc = "top", !.begin_idx = b, !.index = b]]

\* The subscriber object the HTTP thread is creating a subscription for.
ReqSub == IF req.pc = "idle" THEN "none" ELSE req.sub

\* StreamImpl::Subscribe(subscriber, begin_idx), called by the user: the scope
\* is returned to the caller, or StreamInGracefulShutdownException is thrown
\* and nothing is started.
Subscribe(s, b) ==
  /\ sub[s].pc = "none"
  /\ scope[s] = "none"
  /\ ReqSub # s
  /\ IF InDestructingMode
       THEN /\ scope' = [scope EXCEPT ![s] = "refused"]
            /\ UNCHANGED sub
       ELSE /\ scope' = [scope EXCEPT ![s] = "user"]
            /\ sub' = ThreadStarted(s, b)
  /\ UNCHANGED <<lib_vars, terminate_calls, http_vars, persister_vars, mutex_vars, facade_vars, pub,
                 terminate_signal, termination_requested, subscriber_thread_done, term, log>>

\* A loop that passes the signal on whenever it finds it raised.
TerminationRaised_Repeated(r, s) == terminate_signal[s]

\* `!terminate_sent && terminate_signal_`, with the locals `r`.
TerminationRaised(r, s) == ~r.terminate_sent /\ terminate_signal[s]

\* An HTTP endpoint that may ask to go on when it is told to terminate.
TerminateAnswers_Any(s) == {"Wait", "Terminate"}

\* What subscriber_.Terminate() may answer: a subscriber of the user answers as
\* it likes, the chunked HTTP endpoint answers Terminate.
TerminateAnswers(s) ==
  IF scope[s] = "http" THEN {"Terminate"} ELSE {"Wait", "Terminate"}

\* ThreadImpl, the top of the loop: a raised termination signal is passed to
\* subscriber_.Terminate() once; any answer but Wait ends the thread.
SubTop(s) ==
  /\ sub[s].pc = "top"
  /\ IF TerminationRaised(sub[s], s)
       THEN /\ \E answer \in TerminateAnswers(s) :
                 sub' = [sub EXCEPT ![s].terminate_sent = TRUE,
                                    ![s].pc = IF answer = "Wait" THEN "snap" ELSE "exit"]
            /\ terminate_calls' = [terminate_calls EXCEPT ![s] = @ + 1]
       ELSE /\ sub' = [sub EXCEPT ![s].pc = "snap"]
            /\ UNCHANGED terminate_calls
  /\ UNCHANGED <<lib_vars, scope, http_vars, persister_vars, mutex_vars, facade_vars, pub, terminate_signal,
                 termination_requested, subscriber_thread_done, term, log>>

\* `head_idx.head > head`: the snapshot `hl` is ahead of the locals `r`.
HeadAdvanced(hl, r) == hl.head > r.head

\* A loop that iterates from the index subscribed from, in every round.
IterateFrom_Restart(r) == r.begin_idx

\* The first index of Iterate(index, size).
IterateFrom(r) == r.index

\* A loop that leaves `index` where it was.
IndexAfterIterate_Stale(r) == r.index

\* `index = size` after the loop over the entries.
IndexAfterIterate(r) == r.size

\* A loop that passes the head on whatever the size.
DeliversHead_AnySize(r) == r.snap_head > r.head

\* `size > begin_idx && head_idx.head > head`: the head-only call is made.
DeliversHead(r) == r.size > r.begin_idx /\ r.snap_head > r.head

\* A branch that does not record the head it has passed on.
ObservedHead_Stale(r) == r.head

\* `head = head_idx.head` at the end of the branch.
ObservedHead(r) == r.snap_head

\* The locals of one round of the loop (`head_idx`, the iteration) go out of
\* scope when the round ends.
EndRound(r, pc) ==
  [r EXCEPT !.pc = pc, !.size = 0, !.cursor = 0, !.snap_head = InitialHead]

\* The cases of the polymorphic entry type, and the ones the subscriber
\* subscribed to (TYPE_SUBSCRIBED_TO).
Cases == {"A", "B"}
TypeSubscribedTo == {"A"}

\* The runtime case of an entry is a function of the entry, which the model
\* identifies with its timestamp.
CaseOf(us) == IF us % 2 = 1 THEN "A" ELSE "B"

\* A type-match step that passes every entry to the entry callback.
PassEntryToSubscriberIfTypeMatches_All(us) == "entry"

\* PassEntryToSubscriberIfTypeMatches: the entry callback of the subscriber for
\* an entry of a case subscribed to, EntryResponseIfNoMorePassTypeFilter()
\* otherwise.
PassEntryToSubscriberIfTypeMatches(us) ==
  IF CaseOf(us) \in TypeSubscribedTo THEN "entry" ELSE "no_match"

\* ThreadImpl, after the entries of the snapshot: the head-only call, then
\* `head = head_idx.head`. `r` holds the locals, `lg` the calls made so far.
HeadStep(s, r, lg) ==
  IF DeliversHead(r)
    THEN \E answer \in {"Continue", "Done"} :
           /\ log' = [log EXCEPT ![s] = Append(lg, <<"head", r.snap_head>>)]
           /\ sub' = [sub EXCEPT ![s] =
                        IF answer = "Done" THEN EndRound([r EXCEPT !.response = answer], "exit")
                        ELSE EndRound([r EXCEPT !.head = ObservedHead(r),
                                                !.response = answer], "top")]
    ELSE /\ log' = [log EXCEPT ![s] = lg]
         /\ sub' = [sub EXCEPT ![s] =
                      EndRound([r EXCEPT !.head = ObservedHead(r)], "top")]

\* ThreadImpl: the snapshot of head and last, and the branch on it.
SubSnap(s) ==
  /\ sub[s].pc = "snap"
  /\ LET hl == HeadAndLast
         r == [sub[s] EXCEPT !.size = hl.size, !.snap_head = hl.head]
     IN IF HeadAdvanced(hl, sub[s])
          THEN IF hl.size > sub[s].index
                 THEN /\ sub' = [sub EXCEPT ![s] =
                                   [r EXCEPT !.pc = "iter", !.cursor = IterateFrom(r)]]
                      /\ UNCHANGED log
                 ELSE HeadStep(s, r, log[s])
          ELSE /\ sub' = [sub EXCEPT ![s] = EndRound(r, "wait_lock")]
               /\ UNCHANGED log
  /\ UNCHANGED <<life_vars, persister_vars, mutex_vars, facade_vars, pub, terminate_signal,
                 termination_requested, subscriber_thread_done, term>>

\* ThreadImpl, one round of the loop over Iterate(index, size): the termination
\* check, then the entry at `cursor` goes through PassEntryToSubscriberIfTypeMatches;
\* after the last one `index = size` and `head` is the last timestamp of the snapshot.
SubIter(s) ==
  /\ sub[s].pc = "iter"
  /\ LET r == sub[s]
         raised == TerminationRaised(r, s)
         r1 == [r EXCEPT !.terminate_sent = r.terminate_sent \/ raised]
         r2 == [r1 EXCEPT !.response = "Continue"]
         lg1 == Append(log[s], <<PassEntryToSubscriberIfTypeMatches(entries[r.cursor + 1]),
                                 r.cursor, entries[r.cursor + 1]>>)
     IN /\ \E t_answer \in TerminateAnswers(s), e_answer \in {"Continue", "Done"} :
             IF raised /\ t_answer = "Terminate"
               THEN /\ sub' = [sub EXCEPT ![s] = EndRound(r1, "exit")]
                    /\ UNCHANGED log
               ELSE IF e_answer = "Done"
                 THEN /\ sub' = [sub EXCEPT ![s] =
                                   EndRound([r1 EXCEPT !.response = "Done"], "exit")]
                      /\ log' = [log EXCEPT ![s] = lg1]
                 ELSE IF r.cursor + 1 < r.size
                   THEN /\ sub' = [sub EXCEPT ![s] = [r2 EXCEPT !.cursor = r.cursor + 1]]
                        /\ log' = [log EXCEPT ![s] = lg1]
                   ELSE HeadStep(s, [r2 EXCEPT !.index = IndexAfterIterate(r),
                                               !.head = entries[r.size]], lg1)
        /\ terminate_calls' =
             [terminate_calls EXCEPT ![s] = IF raised THEN @ + 1 ELSE @]
  /\ UNCHANGED <<lib_vars, scope, http_vars, persister_vars, mutex_vars, facade_vars, pub,
                 terminate_signal, termination_requested, subscriber_thread_done, term>>

\* The predicate of terminate_signal_.WaitUntil(lock, ...).
WaitPredicate(s) ==
  \/ terminate_signal[s]
  \/ Size > sub[s].index
  \/ (sub[s].index > sub[s].begin_idx /\ CurrentHead > sub[s].head)

\* A wait branch that keeps the lock when it is left.
UnlockAfterWait_Never(s) == s

\* The unique_lock of the wait branch goes out of scope: publish_mutex is free.
UnlockAfterWait(s) == "free"

\* ThreadImpl, the wait branch: lock publish_mutex, register with the notifier
\* and evaluate the predicate. When it is true the wait is over at once and the
\* lock is released; otherwise the thread is about to block, still holding it.
SubWaitLock(s) ==
  /\ sub[s].pc \in {"wait_lock", "woken"}
  /\ publish_mutex = "free"
  /\ IF WaitPredicate(s)
       THEN /\ sub' = [sub EXCEPT ![s].pc = "top"]
            /\ publish_mutex' = UnlockAfterWait(s)
       ELSE /\ sub' = [sub EXCEPT ![s].pc = "wait_block"]
            /\ publish_mutex' = s
  /\ UNCHANGED <<life_vars, persister_vars, publisher_mutex_, facade_vars, pub, terminate_signal,
                 termination_requested, subscriber_thread_done, term, log>>

\* condition_variable::wait: release the lock and block, in one step.
SubWaitBlock(s) ==
  /\ sub[s].pc = "wait_block"
  /\ sub' = [sub EXCEPT ![s].pc = "blocked"]
  /\ publish_mutex' = "free"
  /\ UNCHANGED <<life_vars, persister_vars, publisher_mutex_, facade_vars, pub, terminate_signal,
                 termination_requested, subscriber_thread_done, term, log>>

\* A condition variable may wake up with no notification.
SpuriousWakeup(s) ==
  /\ sub[s].pc = "blocked"
  /\ sub' = [sub EXCEPT ![s].pc = "woken"]
  /\ UNCHANGED <<life_vars, persister_vars, mutex_vars, facade_vars, pub, terminate_signal,
                 termination_requested, subscriber_thread_done, term, log>>

\* subscriber_.Terminate() throws, at the top of the loop or between two
\* entries. Nothing in ThreadImpl or Thread() catches, the exception leaves the
\* thread function and std::terminate() ends the process; the thread takes no
\* further step.
SubThrow(s) ==
  /\ sub[s].pc \in {"top", "iter"}
  /\ TerminationRaised(sub[s], s)
  /\ sub' = [sub EXCEPT ![s].pc = "aborted"]
  /\ UNCHANGED <<life_vars, persister_vars, mutex_vars, facade_vars, pub, terminate_signal,
                 termination_requested, subscriber_thread_done, term, log>>

\* Thread(), after ThreadImpl has returned: `subscriber_thread_done_ = true`.
SubExit(s) ==
  /\ sub[s].pc = "exit"
  /\ sub' = [sub EXCEPT ![s].pc = "finished"]
  /\ subscriber_thread_done' = [subscriber_thread_done EXCEPT ![s] = TRUE]
  /\ UNCHANGED <<life_vars, persister_vars, mutex_vars, facade_vars, pub, terminate_signal,
                 termination_requested, term, log>>

\* A last section that runs with the mutex left free.
HeldInLastSection_Unlocked(s) == "free"

\* `std::lock_guard<std::mutex> lock(bare_data.http_subscriptions->mutex)` in
\* Thread(): the holder of the mutex during the last section of `s`.
HeldInLastSection(s) == s

\* Thread(), its last section: http_subscriptions->mutex is locked and the
\* done_callback, if there is one, is called; the one of an HTTP subscription
\* starts the detached thread that will erase the registry entry.
SubDone(s) ==
  /\ sub[s].pc = "finished"
  /\ http_mutex = "free"
  /\ http_mutex' = HeldInLastSection(s)
  /\ sub' = [sub EXCEPT ![s].pc = "unlock"]
  /\ eraser' = [eraser EXCEPT ![s] = IF scope[s] = "http" THEN "started" ELSE @]
  /\ UNCHANGED <<lib_vars, terminate_calls, scope, destructing, stream_dtor, subscribers_map,
                 req, persister_vars, mutex_vars, facade_vars, pub, terminate_signal,
                 termination_requested, subscriber_thread_done, term, log>>

\* Thread() returns: the lock_guard releases http_subscriptions->mutex and the
\* thread ends.
SubEnd(s) ==
  /\ sub[s].pc = "unlock"
  /\ http_mutex' = "free"
  /\ sub' = [sub EXCEPT ![s].pc = "ended"]
  /\ UNCHANGED <<lib_vars, terminate_calls, scope, destructing, stream_dtor, subscribers_map, eraser,
                 req, persister_vars, mutex_vars, facade_vars, pub, terminate_signal,
                 termination_requested, subscriber_thread_done, term, log>>

\* ------------------------------------------------------ termination ----
\* TerminateSubscription(), called by `c` on the thread instance of `s`:
\* `if (!termination_requested_)`.
TermCheck(c, s) ==
  /\ term[c] = <<"idle">>
  /\ term' = [term EXCEPT ![c] = <<IF termination_requested[s] THEN "return" ELSE "set", s>>]
  /\ UNCHANGED <<life_vars, persister_vars, mutex_vars, facade_vars, pub, sub, terminate_signal,
                 termination_requested, subscriber_thread_done, log>>

\* TerminateSubscription(): `termination_requested_ = true`, and the signal is
\* the next thing to do unless the subscriber thread is done.
TermSet(c, s) ==
  /\ term[c] = <<"set", s>>
  /\ termination_requested' = [termination_requested EXCEPT ![s] = TRUE]
  /\ term' = [term EXCEPT ![c] = <<IF subscriber_thread_done[s] THEN "return" ELSE "signal", s>>]
  /\ UNCHANGED <<life_vars, persister_vars, mutex_vars, facade_vars, pub, sub, terminate_signal,
                 subscriber_thread_done, log>>

\* A signal that is taken back when it is found raised.
SignalExternalTermination_Toggle(s) == ~terminate_signal[s]

\* WaitableTerminateSignal::SignalExternalTermination(): the signal is raised.
SignalExternalTermination(s) == TRUE

\* A signal raised without publish_mutex.
LockedForSignal_NoLock == TRUE

\* `std::lock_guard<std::mutex> lock(publish_mutex)` around the signal, in
\* TerminateSubscription and in the destruction callback: the lock is there to
\* take.
LockedForSignal == publish_mutex = "free"

\* SignalExternalTermination() under publish_mutex: the signal of `s`, and the
\* waiter woken.
Signalled(s) ==
  /\ terminate_signal' = [terminate_signal EXCEPT ![s] = SignalExternalTermination(s)]
  /\ sub' = [sub EXCEPT ![s].pc = IF sub[s].pc = "blocked" THEN "woken" ELSE sub[s].pc]

\* TerminateSubscription(): SignalExternalTermination() under publish_mutex.
TermSignal(c, s) ==
  /\ term[c] = <<"signal", s>>
  /\ LockedForSignal
  /\ Signalled(s)
  /\ term' = [term EXCEPT ![c] = <<"return", s>>]
  /\ UNCHANGED <<life_vars, persister_vars, mutex_vars, facade_vars, pub, termination_requested,
                 subscriber_thread_done, log>>

\* SubscriberScope::AsyncTerminate(), called by a thread of the user on the
\* scope it holds.
AsyncTerminate(c, s) ==
  /\ scope[s] = "user"
  /\ TermCheck(c, s)

\* AsyncTerminate() returns to the thread of the user.
AsyncTerminateReturn(c, s) ==
  /\ term[c] = <<"return", s>>
  /\ term' = [term EXCEPT ![c] = <<"idle">>]
  /\ UNCHANGED <<life_vars, persister_vars, mutex_vars, facade_vars, pub, sub, terminate_signal,
                 termination_requested, subscriber_thread_done, log>>

\* ------------------------------------------------- scope destructor ----
\* The scopes whose SubscriberThreadInstance exists: each co-owns the data.
LiveScopes == {"user", "http", "dtor"}

\* A destructor that does not wait for the thread.
Joined_NoWait(s) == TRUE

\* thread_.join() returns: Thread() of `s` has returned.
Joined(s) == sub[s].pc = "ended"

\* ~SubscriberThreadInstance of a scope the user holds, no other thread using
\* the scope: `if (!termination_requested_) TerminateSubscription()`.
ScopeDtorBegin(s) ==
  /\ scope[s] = "user"
  /\ \A c \in TermCallers : term[c] = <<"idle">>
  /\ scope' = [scope EXCEPT ![s] = "dtor"]
  /\ term' = [term EXCEPT !["scope"] =
                 <<IF termination_requested[s] THEN "return" ELSE "set", s>>]
  /\ UNCHANGED <<lib_vars, terminate_calls, http_vars, persister_vars, mutex_vars, facade_vars, pub, sub,
                 terminate_signal, termination_requested, subscriber_thread_done, log>>

\* ~SubscriberThreadInstance: thread_.join(), and the destructor returns; the
\* members, `data_` among them, are destroyed.
ScopeDtorJoin(s) ==
  /\ scope[s] = "dtor"
  /\ term["scope"] = <<"return", s>>
  /\ Joined(s)
  /\ scope' = [scope EXCEPT ![s] = "destroyed"]
  /\ term' = [term EXCEPT !["scope"] = <<"idle">>]
  /\ UNCHANGED <<lib_vars, terminate_calls, http_vars, persister_vars, mutex_vars, facade_vars, pub, sub,
                 terminate_signal, termination_requested, subscriber_thread_done, log>>

\* --------------------------------------------------- facade destructor ----
\* The acquirer destroys the handle it holds.
DestroyPublisher ==
  /\ acquirer_publisher
  /\ pub["acquirer"].pc = "idle"
  /\ acquirer_publisher' = FALSE
  /\ UNCHANGED <<life_vars, persister_vars, mutex_vars, constructed, own_data_, publisher_,
                 authority_, pub, sub_vars>>

\* ~StreamImpl of the facade that owns the data, no call on it in progress:
\* http_subscriptions->mutex is locked for the loop over subscribers_map.
StreamDtorBegin(f) ==
  /\ stream_dtor = <<"none">>
  /\ constructed[f]
  /\ own_data_[f]
  /\ pub["caller"].pc = "idle"
  /\ publisher_mutex_[f] = "free"
  /\ http_mutex = "free"
  /\ http_mutex' = "stream"
  /\ stream_dtor' = <<"terminate_all", subscribers_map>>
  /\ constructed' = [constructed EXCEPT ![f] = FALSE]
  /\ UNCHANGED <<lib_vars, terminate_calls, scope, destructing, subscribers_map, eraser, req,
                 persister_vars, mutex_vars, own_data_, publisher_, authority_,
                 acquirer_publisher, pub, sub_vars>>

\* ~StreamImpl, the loop: subsciber_scope.AsyncTerminate() on an entry.
StreamDtorAsyncTerminate(s) ==
  /\ stream_dtor[1] = "terminate_all"
  /\ s \in stream_dtor[2]
  /\ TermCheck("stream", s)

\* ~StreamImpl, the loop: AsyncTerminate() has returned, on to the next entry.
StreamDtorNext(s) ==
  /\ stream_dtor[1] = "terminate_all"
  /\ term["stream"] = <<"return", s>>
  /\ term' = [term EXCEPT !["stream"] = <<"idle">>]
  /\ stream_dtor' = <<"terminate_all", stream_dtor[2] \ {s}>>
  /\ UNCHANGED <<lib_vars, terminate_calls, scope, destructing, http_mutex, subscribers_map, eraser, req,
                 persister_vars, mutex_vars, facade_vars, pub, sub, terminate_signal,
                 termination_requested, subscriber_thread_done, log>>

\* ~StreamImpl: the loop is over and the mutex released.
StreamDtorUnlock ==
  /\ stream_dtor = <<"terminate_all", {}>>
  /\ http_mutex' = "free"
  /\ stream_dtor' = <<"poll">>
  /\ UNCHANGED <<lib_vars, terminate_calls, scope, destructing, subscribers_map, eraser, req,
                 persister_vars, mutex_vars, facade_vars, pub, sub_vars>>

\* `http_subscriptions->subscribers_map.empty()`.
MapWiped == subscribers_map = {}

\* ~StreamImpl: the polling loop finds subscribers_map empty under the mutex
\* and the body of the destructor ends. The members go next: the handle in
\* publisher_, then own_data_, whose destructor puts the data in destructing
\* mode and runs the destruction callback of every co-owner.
StreamDtorPoll(f) ==
  /\ stream_dtor = <<"poll">>
  /\ own_data_[f]
  /\ http_mutex = "free"
  /\ MapWiped
  /\ publisher_' = [publisher_ EXCEPT ![f] = FALSE]
  /\ destructing' = TRUE
  /\ stream_dtor' = <<"barrier", {s \in Subscribers : scope[s] \in LiveScopes}>>
  /\ UNCHANGED <<lib_vars, terminate_calls, scope, http_mutex, subscribers_map, eraser, req,
                 persister_vars, mutex_vars, constructed, own_data_, authority_,
                 acquirer_publisher, pub, sub_vars>>

\* The destruction callback of the SubscriberThreadInstance of `s`, run by the
\* destructing thread: SignalExternalTermination() under publish_mutex. A
\* co-owner that is gone by then has no callback left.
StreamDtorCallback(s) ==
  /\ stream_dtor[1] = "barrier"
  /\ s \in stream_dtor[2]
  /\ stream_dtor' = <<"barrier", stream_dtor[2] \ {s}>>
  /\ IF scope[s] \in LiveScopes
       THEN LockedForSignal /\ Signalled(s)
       ELSE UNCHANGED <<terminate_signal, sub>>
  /\ UNCHANGED <<lib_vars, terminate_calls, scope, destructing, http_mutex, subscribers_map, eraser, req,
                 persister_vars, mutex_vars, facade_vars, pub, termination_requested,
                 subscriber_thread_done, term, log>>

\* A destructor of the data that waits for nobody.
CoOwned_Nobody == FALSE

\* The co-owners of the data: the thread instances, the request being served
\* (its scoped_data, which a request answered 503 never had), the handle the
\* acquirer holds.
CoOwned ==
  \/ \E s \in Subscribers : scope[s] \in LiveScopes
  \/ (req.pc # "idle" /\ req.response # "503")
  \/ acquirer_publisher

\* The destructor of own_data_ returns when no co-owner is left, and with it
\* the destructor of the facade.
StreamDtorReturn(f) ==
  /\ stream_dtor = <<"barrier", {}>>
  /\ own_data_[f]
  /\ ~CoOwned
  /\ stream_dtor' = <<"returned">>
  /\ own_data_' = [own_data_ EXCEPT ![f] = FALSE]
  /\ UNCHANGED <<lib_vars, terminate_calls, scope, destructing, http_mutex, subscribers_map, eraser, req,
                 persister_vars, mutex_vars, constructed, publisher_, authority_,
                 acquirer_publisher, pub, sub_vars>>

\* ------------------------------------------------------- HTTP requests ----
\* static_cast<uint64_t>(-1), the `tail` that asks for no backlog: a value above
\* every size and index of the model.
TailAll == 1000000

Methods == {"GET", "HEAD", "POST"}

\* A parameter of the URL that is absent, or present with one of `values`.
Optional(values) == {<<>>} \cup {<<v>> : v \in values}

\* The requests that differ in what decides the kind of the response, with and
\* without start options.
DispatchQueries ==
  [method : Methods, terminate : Optional(Subscribers \cup {"unknown"}),
   sizeonly : BOOLEAN, schema : BOOLEAN, tail : {<<>>}, recent : {<<>>},
   since : {<<>>}, i : Optional({1}), nowait : {FALSE}]

\* The GET requests for the entries, with every combination of start options.
StartQueries ==
  [method : {"GET"}, terminate : {<<>>}, sizeonly : {FALSE}, schema : {FALSE},
   tail : Optional(0..MaxEntries \cup {TailAll}), recent : Optional(0..MaxTime),
   since : Optional(0..MaxTime), i : Optional(0..MaxEntries), nowait : BOOLEAN]

\* The value of a numeric parameter: 0 when the URL does not have it.
ValueOrZero(opt) == IF opt = <<>> THEN 0 ELSE opt[1]

\* ParsePubSubHTTPRequest(r): the parameters as ServeDataViaHTTP reads them.
ParsePubSubHTTPRequest(q) ==
  [terminate_requested |-> q.terminate # <<>>,
   terminate_id |-> IF q.terminate = <<>> THEN "" ELSE q.terminate[1],
   size_only |-> q.sizeonly,
   schema_requested |-> q.schema,
   tail |-> ValueOrZero(q.tail),
   recent |-> ValueOrZero(q.recent),
   since |-> ValueOrZero(q.since),
   i |-> ValueOrZero(q.i),
   no_wait |-> q.nowait]

\* A handler that looks at the method first.
Branch_MethodFirst(q) ==
  LET p == ParsePubSubHTTPRequest(q) IN
  IF q.method \notin {"GET", "HEAD"} THEN "method_not_allowed"
  ELSE IF p.terminate_requested THEN "terminate"
  ELSE IF p.size_only THEN "size"
  ELSE IF p.schema_requested THEN "schema"
  ELSE "stream"

\* The chain of `if`s of ServeDataViaHTTP: which branch serves the request.
Branch(q) ==
  LET p == ParsePubSubHTTPRequest(q) IN
  IF p.terminate_requested THEN "terminate"
  ELSE IF q.method \notin {"GET", "HEAD"} THEN "method_not_allowed"
  ELSE IF p.size_only THEN "size"
  ELSE IF p.schema_requested THEN "schema"
  ELSE "stream"

\* A chain that looks at since before recent.
StartOption_SinceFirst(p) ==
  IF p.tail # 0 THEN "tail"
  ELSE IF p.since > 0 THEN "since"
  ELSE IF p.recent > 0 THEN "recent"
  ELSE "i"

\* The start options: which branch of `if (tail) ... else if (recent > 0) ...
\* else if (since > 0) ... else` is taken.
StartOption(p) ==
  IF p.tail # 0 THEN "tail"
  ELSE IF p.recent > 0 THEN "recent"
  ELSE IF p.since > 0 THEN "since"
  ELSE "i"

\* An unsigned subtraction that wraps around (TailAll stands for the largest
\* uint64_t).
IdxByTail_Wrapping(tail, stream_size) == (stream_size - tail) % (TailAll + 1)

\* `idx_by_tail`: `tail < stream_size ? (stream_size - tail) : 0u`.
IdxByTail(tail, stream_size) == IF tail < stream_size THEN stream_size - tail ELSE 0

\* `begin_idx` after the chain, with the size read before it.
BeginIdxByOption(p, stream_size) ==
  IF StartOption(p) = "tail"
    THEN IF p.tail = TailAll
           THEN stream_size
           ELSE Max(p.i, IdxByTail(p.tail, stream_size))
    ELSE IF StartOption(p) = "i" THEN p.i ELSE 0

\* `from_timestamp` after the chain; `timestamp` is r.timestamp.
FromTimestamp(p, timestamp) ==
  IF StartOption(p) = "recent" THEN timestamp - p.recent
  ELSE IF StartOption(p) = "since" THEN p.since
  ELSE 0

\* persistence.IndexRangeByTimestampRange(from, 0).first: the index of the first
\* entry at or after `from`, the size when there is none.
FirstIndexAtOrAfter(from) ==
  IF \E k \in 1..Len(entries) : entries[k] >= from
    THEN (CHOOSE k \in 1..Len(entries) :
            entries[k] >= from /\ \A j \in 1..(k - 1) : entries[j] < from) - 1
    ELSE Len(entries)

Min(x, y) == IF x <= y THEN x ELSE y

\* `begin_idx = std::max(begin_idx, idx_by_timestamp)`.
BeginIdxByTimestamp(begin_idx, from_timestamp, stream_size) ==
  Max(begin_idx, Min(FirstIndexAtOrAfter(from_timestamp), stream_size))

\* A request that has been answered, or has thrown.
Answered(response) == [req EXCEPT !.pc = "done", !.response = response]

\* A handler that subscribes whatever no_wait says.
NoWaitOrSubscribe_Subscribe(r) == [r EXCEPT !.pc = "subscribe"]

\* `if (no_wait && begin_idx >= stream_size)`: answered 200 at once, or on to
\* the subscription.
NoWaitOrSubscribe(r) ==
  IF r.q.nowait /\ r.begin_idx >= r.stream_size
    THEN [r EXCEPT !.pc = "done", !.response = "200_nowait"]
    ELSE [r EXCEPT !.pc = "subscribe"]

\* ServeDataViaHTTP, its entry: the request co-owns the data from here on, or is
\* answered 503 when the data is in destructing mode; the parameters tell the
\* terminate branch and the method check. The subscriber object a request for
\* the entries may come to create is `s`.
HttpArrive(q, s) ==
  /\ req.pc = "idle"
  /\ IF Branch(q) = "stream" THEN s \in Subscribers /\ scope[s] = "none" ELSE s = "none"
  /\ LET r == [pc |-> "size", q |-> q, timestamp |-> now, sub |-> s, stream_size |-> 0,
               begin_idx |-> 0, from_timestamp |-> 0, response |-> "none"]
     IN req' = IF InDestructingMode THEN [r EXCEPT !.pc = "done", !.response = "503"]
               ELSE IF Branch(q) = "terminate" THEN [r EXCEPT !.pc = "terminate"]
               ELSE IF Branch(q) = "method_not_allowed"
                 THEN [r EXCEPT !.pc = "done", !.response = "405"]
               ELSE r
  /\ UNCHANGED <<lib_vars, terminate_calls, scope, destructing, stream_dtor, http_mutex, subscribers_map,
                 eraser, persister_vars, mutex_vars, facade_vars, pub, sub_vars>>

\* ServeDataViaHTTP: the size is read; sizeonly and schema are answered; the
\* start options give begin_idx and from_timestamp.
HttpSize ==
  /\ req.pc = "size"
  /\ LET p == ParsePubSubHTTPRequest(req.q)
         r == [req EXCEPT !.stream_size = Size,
                          !.begin_idx = BeginIdxByOption(p, Size),
                          !.from_timestamp = FromTimestamp(p, req.timestamp)]
     IN req' = IF Branch(req.q) = "size" THEN Answered("200_size")
               ELSE IF Branch(req.q) = "schema" THEN Answered("200_schema")
               ELSE IF r.from_timestamp > 0 THEN [r EXCEPT !.pc = "by_timestamp"]
               ELSE NoWaitOrSubscribe(r)
  /\ UNCHANGED <<lib_vars, terminate_calls, scope, destructing, stream_dtor, http_mutex, subscribers_map,
                 eraser, persister_vars, mutex_vars, facade_vars, pub, sub_vars>>

\* ServeDataViaHTTP: `if (from_timestamp.count() > 0)`, the index by timestamp.
HttpByTimestamp ==
  /\ req.pc = "by_timestamp"
  /\ req' = NoWaitOrSubscribe(
              [req EXCEPT !.begin_idx =
                 BeginIdxByTimestamp(req.begin_idx, req.from_timestamp, req.stream_size)])
  /\ UNCHANGED <<lib_vars, terminate_calls, scope, destructing, stream_dtor, http_mutex, subscribers_map,
                 eraser, persister_vars, mutex_vars, facade_vars, pub, sub_vars>>

\* A handler that subscribes and inserts with the mutex left free.
HeldWhileSubscribing_Unlocked == "free"

\* `std::lock_guard<std::mutex> lock(data.http_subscriptions->mutex)` around
\* Subscribe and the insertion: the holder of the mutex in between.
HeldWhileSubscribing == "http"

\* ServeDataViaHTTP: http_subscriptions->mutex is locked and Subscribe is
\* called with the done_callback; the constructor of the thread instance
\* starts the thread. Subscribe throws StreamInGracefulShutdownException when
\* the data is in destructing mode, which the `catch` of ServeDataViaHTTP does
\* not handle; the lock is released as the exception leaves the block.
HttpSubscribe ==
  /\ req.pc = "subscribe"
  /\ http_mutex = "free"
  /\ IF InDestructingMode
       THEN /\ req' = Answered("StreamInGracefulShutdown")
            /\ UNCHANGED <<sub, scope, http_mutex>>
       ELSE /\ req' = [req EXCEPT !.pc = "emplace"]
            /\ sub' = ThreadStarted(req.sub, req.begin_idx)
            /\ scope' = [scope EXCEPT ![req.sub] = "http"]
            /\ http_mutex' = HeldWhileSubscribing
  /\ UNCHANGED <<lib_vars, terminate_calls, destructing, stream_dtor, subscribers_map, eraser,
                 persister_vars, mutex_vars, facade_vars, pub, terminate_signal,
                 termination_requested, subscriber_thread_done, term, log>>

\* ServeDataViaHTTP, `if (!subscribers_map.count(subscription_id))`: the scope
\* and the endpoint go into subscribers_map under the id of the subscription
\* and the mutex is released; with the id already there nothing is inserted,
\* and the scope, a local of the locked block, is destroyed next.
HttpEmplace ==
  /\ req.pc = "emplace"
  /\ IF req.sub \notin subscribers_map
       THEN /\ subscribers_map' = subscribers_map \cup {req.sub}
            /\ http_mutex' = "free"
            /\ req' = Answered("200_chunked")
       ELSE /\ req' = [req EXCEPT !.pc = "scope_dtor"]
            /\ UNCHANGED <<subscribers_map, http_mutex>>
  /\ UNCHANGED <<lib_vars, terminate_calls, scope, destructing, stream_dtor, eraser, persister_vars,
                 mutex_vars, facade_vars, pub, sub_vars>>

\* The end of the locked block with the scope not moved into the map:
\* ~SubscriberThreadInstance, `if (!termination_requested_)
\* TerminateSubscription()`, the lock_guard of the block still alive.
HttpScopeDtor ==
  /\ req.pc = "scope_dtor"
  /\ TermCheck("http", req.sub)

\* ~SubscriberThreadInstance in the locked block: thread_.join() returns when
\* the subscriber thread has ended; the endpoint goes with the scope, then
\* the lock_guard.
HttpScopeJoin ==
  /\ req.pc = "scope_dtor"
  /\ term["http"] = <<"return", req.sub>>
  /\ Joined(req.sub)
  /\ term' = [term EXCEPT !["http"] = <<"idle">>]
  /\ scope' = [scope EXCEPT ![req.sub] = "destroyed"]
  /\ http_mutex' = "free"
  /\ req' = Answered("closed")
  /\ UNCHANGED <<lib_vars, terminate_calls, destructing, stream_dtor, subscribers_map, eraser,
                 persister_vars, mutex_vars, facade_vars, pub, sub, terminate_signal,
                 termination_requested, subscriber_thread_done, log>>

\* ServeDataViaHTTP, the terminate branch: under http_subscriptions->mutex the id
\* is looked up; 404 when it is not there.
HttpTerminate ==
  /\ req.pc = "terminate"
  /\ http_mutex = "free"
  /\ IF req.q.terminate[1] \in subscribers_map
       THEN /\ req' = [req EXCEPT !.pc = "terminating"]
            /\ http_mutex' = "http"
       ELSE /\ req' = Answered("404")
            /\ UNCHANGED http_mutex
  /\ UNCHANGED <<lib_vars, terminate_calls, scope, destructing, stream_dtor, subscribers_map, eraser,
                 persister_vars, mutex_vars, facade_vars, pub, sub_vars>>

\* The terminate branch: subscriber_scope.AsyncTerminate().
HttpAsyncTerminate ==
  /\ req.pc = "terminating"
  /\ TermCheck("http", req.q.terminate[1])

\* The terminate branch: AsyncTerminate() has returned, 200, and the mutex is
\* released.
HttpTerminated ==
  /\ req.pc = "terminating"
  /\ term["http"] = <<"return", req.q.terminate[1]>>
  /\ term' = [term EXCEPT !["http"] = <<"idle">>]
  /\ req' = Answered("200_terminated")
  /\ http_mutex' = "free"
  /\ UNCHANGED <<lib_vars, terminate_calls, scope, destructing, stream_dtor, subscribers_map, eraser,
                 persister_vars, mutex_vars, facade_vars, pub, sub, terminate_signal,
                 termination_requested, subscriber_thread_done, log>>

\* ServeDataViaHTTP returns: `scoped_data` is released.
HttpReturn ==
  /\ req.pc = "done"
  /\ req' = IdleReq
  /\ UNCHANGED <<lib_vars, terminate_calls, scope, destructing, stream_dtor, http_mutex, subscribers_map,
                 eraser, persister_vars, mutex_vars, facade_vars, pub, sub_vars>>

\* The detached thread of the done_callback: under http_subscriptions->mutex the
\* scope of the entry is destroyed (its destructor requests termination if
\* nobody did and joins the thread, which has left its last section), then the
\* endpoint, and the entry is erased.
Eraser(s) ==
  /\ eraser[s] = "started"
  /\ http_mutex = "free"
  /\ sub[s].pc = "ended"
  /\ eraser' = [eraser EXCEPT ![s] = "done"]
  /\ IF s \in subscribers_map
       THEN /\ subscribers_map' = subscribers_map \ {s}
            /\ scope' = [scope EXCEPT ![s] = "destroyed"]
            /\ termination_requested' = [termination_requested EXCEPT ![s] = TRUE]
       ELSE UNCHANGED <<subscribers_map, scope, termination_requested>>
  /\ UNCHANGED <<lib_vars, terminate_calls, destructing, stream_dtor, http_mutex, req, persister_vars,
                 mutex_vars, facade_vars, pub, sub, terminate_signal, subscriber_thread_done,
                 term, log>>

\* ------------------------------------------------------------ Next ----
PublishStep ==
  \/ \E f \in Facades, op \in Ops, arg \in TimeArgs : FacadeCall(f, op, arg)
  \/ \E t \in PubThreads : PubPersistPublish(t)
  \/ \E t \in PubThreads : PubPersistUpdateHead(t)
  \/ \E t \in PubThreads : PubNotify(t)
  \/ \E t \in PubThreads : Return(t)

HandOffStep ==
  \/ \E op \in Ops, arg \in TimeArgs : HandleCall(op, arg)
  \/ \E f \in Facades : MovePublisherTo(f)
  \/ \E f \in Facades, given \in BOOLEAN : AcquirePublisher(f, given)

\* The subscriber threads, subscribing from one of the indexes `from`.
SubscriberStep(from) ==
  \/ \E s \in Subscribers, b \in from : Subscribe(s, b)
  \/ \E s \in Subscribers : SubTop(s)
  \/ \E s \in Subscribers : SubSnap(s)
  \/ \E s \in Subscribers : SubIter(s)
  \/ \E s \in Subscribers : SubWaitLock(s)
  \/ \E s \in Subscribers : SubWaitBlock(s)
  \/ \E s \in Subscribers : SpuriousWakeup(s)
  \/ \E s \in Subscribers : SubExit(s)

\* The threads `callers` of the user, each calling AsyncTerminate when it likes.
TerminationStep(callers) ==
  \/ \E c \in callers, s \in Subscribers : AsyncTerminate(c, s)
  \/ \E c \in callers, s \in Subscribers : TermSet(c, s)
  \/ \E c \in callers, s \in Subscribers : TermSignal(c, s)
  \/ \E c \in callers, s \in Subscribers : AsyncTerminateReturn(c, s)

\* The HTTP thread, serving one request after the other out of `queries`:
\* the path every request but terminate=<id> takes when no timestamp is given.
ServeStep(queries) ==
  \/ \E q \in queries, s \in Subscribers \cup {"none"} : HttpArrive(q, s)
  \/ HttpSize
  \/ HttpSubscribe
  \/ HttpEmplace
  \/ HttpReturn

\* The HTTP thread in the terminate branch.
TerminateRequestStep ==
  \/ HttpTerminate
  \/ HttpAsyncTerminate
  \/ \E s \in Subscribers : TermSet("http", s)
  \/ \E s \in Subscribers : TermSignal("http", s)
  \/ HttpTerminated

\* The HTTP thread, serving one request after the other out of `queries`.
RequestStep(queries) ==
  \/ ServeStep(queries)
  \/ HttpByTimestamp
  \/ TerminateRequestStep

MoveStep ==
  \/ \E g \in Facades, rhs \in Facades : MoveConstruct(g, rhs)
  \/ \E g \in Facades, rhs \in Facades : MoveAssign(g, rhs)

\* One stream published into by the facade and by the acquirer, and subscribed to.
Next == PublishStep \/ HandOffStep \/ SubscriberStep({0})

Spec == Init /\ [][Next]_vars

\* One stream published into by the facade, subscribed to, with termination.
NextSubscriber == PublishStep \/ SubscriberStep(0..MaxBegin) \/ TerminationStep({"user"})

SpecSubscriber == Init /\ [][NextSubscriber]_vars

\* The facade objects of one stream, with publishing but no subscriber.
NextFacade == PublishStep \/ HandOffStep \/ MoveStep

SpecFacade == Init /\ [][NextFacade]_vars

\* One stream published into by the facade and subscribed to from the start,
\* under fair scheduling: a call that has started goes on to its end, and a
\* subscriber thread that can take a step takes it. Nothing makes a caller
\* start a call, and nothing makes a condition variable wake up by itself.
NextLive == PublishStep \/ SubscriberStep({0})

SpecLive ==
  /\ Init
  /\ [][NextLive]_vars
  /\ \A t \in PubThreads :
       /\ WF_vars(PubPersistPublish(t))
       /\ WF_vars(PubPersistUpdateHead(t))
       /\ WF_vars(PubNotify(t))
       /\ WF_vars(Return(t))
  /\ \A s \in Subscribers :
       /\ WF_vars(SubTop(s))
       /\ WF_vars(SubSnap(s))
       /\ WF_vars(SubIter(s))
       /\ WF_vars(SubWaitLock(s))
       /\ WF_vars(SubWaitBlock(s))
       /\ WF_vars(SubExit(s))

\* The HTTP requests served on a stream that has been published into.
NextRequest == RequestStep(DispatchQueries \cup StartQueries)

SpecRequest == InitPublished /\ [][NextRequest]_vars

\* The facade publishing with the timestamps the clock gives.
ClockPublishStep ==
  \/ \E f \in Facades, op \in Ops : FacadeCall(f, op, <<>>)
  \/ PubPersistPublish("caller")
  \/ PubPersistUpdateHead("caller")
  \/ PubNotify("caller")
  \/ Return("caller")

\* The acquirer: it takes the handle, publishes through it with the timestamps
\* the clock gives, and destroys it.
HandleStep ==
  \/ \E f \in Facades : MovePublisherTo(f)
  \/ \E op \in Ops : HandleCall(op, <<>>)
  \/ PubPersistPublish("acquirer")
  \/ PubPersistUpdateHead("acquirer")
  \/ PubNotify("acquirer")
  \/ \E t \in PubThreads : Return(t)
  \/ DestroyPublisher

\* The destructor of the facade that owns the data.
StreamDtorStep ==
  \/ \E f \in Facades : StreamDtorBegin(f)
  \/ \E s \in Subscribers : StreamDtorAsyncTerminate(s)
  \/ \E s \in Subscribers : TermSet("stream", s)
  \/ \E s \in Subscribers : TermSignal("stream", s)
  \/ \E s \in Subscribers : StreamDtorNext(s)
  \/ StreamDtorUnlock
  \/ \E f \in Facades : StreamDtorPoll(f)
  \/ \E s \in Subscribers : StreamDtorCallback(s)
  \/ \E f \in Facades : StreamDtorReturn(f)

\* The requests served while the facade is destroyed: for the entries, for the
\* size, and to terminate a subscription.
ShutdownQueries == {NoQuery, [NoQuery EXCEPT !.sizeonly = TRUE]}
TeardownQueries ==
  ShutdownQueries \cup {[NoQuery EXCEPT !.terminate = <<s>>] : s \in Subscribers}

\* The destructor of the scope the user holds.
ScopeStep ==
  \/ \E s \in Subscribers : ScopeDtorBegin(s)
  \/ \E s \in Subscribers : TermSet("scope", s)
  \/ \E s \in Subscribers : TermSignal("scope", s)
  \/ \E s \in Subscribers : ScopeDtorJoin(s)

\* One subscription of the user, from the start of the stream to the end of
\* its scope: two threads of the user call AsyncTerminate when they like and
\* one of them destroys the scope. Scheduling is fair to every call that has
\* started and to the subscriber thread; a thread that asks for publish_mutex
\* again and again gets it (the waiter gives it up every time it blocks).
\* Nothing makes a caller start a call.
NextScope ==
  \/ ClockPublishStep
  \/ SubscriberStep({0})
  \/ \E s \in Subscribers : SubDone(s)
  \/ \E s \in Subscribers : SubEnd(s)
  \/ TerminationStep(UserThreads)
  \/ ScopeStep

SpecScope ==
  /\ Init
  /\ [][NextScope]_vars
  /\ WF_vars(PubPersistPublish("caller"))
  /\ WF_vars(PubPersistUpdateHead("caller"))
  /\ WF_vars(PubNotify("caller"))
  /\ WF_vars(Return("caller"))
  /\ \A s \in Subscribers :
       /\ WF_vars(SubTop(s))
       /\ WF_vars(SubSnap(s))
       /\ WF_vars(SubIter(s))
       /\ WF_vars(SubWaitLock(s))
       /\ WF_vars(SubWaitBlock(s))
       /\ WF_vars(SubExit(s))
       /\ WF_vars(SubDone(s))
       /\ WF_vars(SubEnd(s))
       /\ WF_vars(TermSet("scope", s))
       /\ SF_vars(TermSignal("scope", s))
       /\ WF_vars(ScopeDtorJoin(s))

\* A stream that has been published into, to the end of ~StreamImpl: subscribed
\* to by the user or over HTTP, with terminations by the user, by requests and
\* by the destructors, and destroyed at any moment.
NextTeardown ==
  \/ SubscriberStep({0})
  \/ \E s \in Subscribers : SubDone(s)
  \/ \E s \in Subscribers : SubEnd(s)
  \/ TerminationStep({"user"})
  \/ ScopeStep
  \/ ServeStep(TeardownQueries)
  \/ TerminateRequestStep
  \/ \E s \in Subscribers : Eraser(s)
  \/ StreamDtorStep

SpecTeardown == InitPublished /\ [][NextTeardown]_vars

\* One stream from its construction to the end of ~StreamImpl: the acquirer
\* takes the handle and publishes through it, the user subscribes and keeps the
\* scope, requests for the entries and for the size arrive, and the facade is
\* destroyed at any moment.
NextShutdown ==
  \/ HandleStep
  \/ SubscriberStep({0})
  \/ \E s \in Subscribers : SubDone(s)
  \/ \E s \in Subscribers : SubEnd(s)
  \/ ServeStep(ShutdownQueries)
  \/ \E s \in Subscribers : Eraser(s)
  \/ StreamDtorStep

SpecShutdown == Init /\ [][NextShutdown]_vars

\* The requests with nowait, from index i or from a timestamp.
NoWaitQueries ==
  [method : {"GET"}, terminate : {<<>>}, sizeonly : {FALSE}, schema : {FALSE},
   tail : {<<>>}, recent : {<<>>}, since : Optional({1}), i : Optional(1..MaxEntries),
   nowait : {TRUE}]

\* One stream published into through the handle, with requests that do not
\* want to wait, the subscriptions they make when there is something to send,
\* and the destructor of the facade at any moment.
NextNoWait ==
  \/ HandleStep
  \/ SubscriberStep({0})
  \/ \E s \in Subscribers : SubDone(s)
  \/ \E s \in Subscribers : SubEnd(s)
  \/ ServeStep(NoWaitQueries)
  \/ HttpByTimestamp
  \/ \E s \in Subscribers : Eraser(s)
  \/ StreamDtorStep

SpecNoWait == Init /\ [][NextNoWait]_vars

\* A stream that is published into by the facade, with HTTP subscriptions and
\* terminate=<id> requests, under fair scheduling: a call or a request that has
\* started goes on to its end, a subscriber thread and an eraser that can take
\* a step take it, and a thread that asks for a mutex again and again gets it.
\* Nothing makes a request arrive.
NextTerminate ==
  \/ ClockPublishStep
  \/ SubscriberStep({0})
  \/ \E s \in Subscribers : SubDone(s)
  \/ \E s \in Subscribers : SubEnd(s)
  \/ ServeStep(TeardownQueries)
  \/ TerminateRequestStep
  \/ \E s \in Subscribers : Eraser(s)

SpecTerminate ==
  /\ Init
  /\ [][NextTerminate]_vars
  /\ WF_vars(PubPersistPublish("caller"))
  /\ WF_vars(PubPersistUpdateHead("caller"))
  /\ WF_vars(PubNotify("caller"))
  /\ WF_vars(Return("caller"))
  /\ WF_vars(HttpEmplace)
  /\ WF_vars(HttpAsyncTerminate)
  /\ WF_vars(HttpTerminated)
  /\ \A s \in Subscribers :
       /\ WF_vars(SubTop(s))
       /\ WF_vars(SubSnap(s))
       /\ WF_vars(SubIter(s))
       /\ WF_vars(SubWaitLock(s))
       /\ WF_vars(SubWaitBlock(s))
       /\ WF_vars(SubExit(s))
       /\ SF_vars(SubDone(s))
       /\ WF_vars(SubEnd(s))
       /\ SF_vars(Eraser(s))
       /\ WF_vars(TermSet("http", s))
       /\ SF_vars(TermSignal("http", s))

\* HTTP subscriptions whose callbacks may throw.
NextThrow ==
  \/ NextTerminate
  \/ \E s \in Subscribers : SubThrow(s)

SpecThrow == Init /\ [][NextThrow]_vars

\* ~StreamImpl of a stream nobody subscribed to over HTTP: the loop over
\* subscribers_map is empty, the destructor of own_data_ runs the destruction
\* callbacks and waits for the co-owners.
BarrierStep ==
  \/ \E f \in Facades : StreamDtorBegin(f)
  \/ StreamDtorUnlock
  \/ \E f \in Facades : StreamDtorPoll(f)
  \/ \E s \in Subscribers : StreamDtorCallback(s)
  \/ \E f \in Facades : StreamDtorReturn(f)

\* One subscription of the user to a stream that has been published into; the
\* user calls AsyncTerminate or destroys the scope when it likes, and the
\* facade is destroyed at any moment. Scheduling is fair to the subscriber
\* thread and to every call that has started; a thread that asks for
\* publish_mutex again and again gets it. A condition variable need not wake
\* up with no notification.
NextBarrier ==
  \/ SubscriberStep({0})
  \/ \E s \in Subscribers : SubDone(s)
  \/ \E s \in Subscribers : SubEnd(s)
  \/ TerminationStep({"user"})
  \/ ScopeStep
  \/ BarrierStep

SpecBarrier ==
  /\ InitPublished
  /\ [][NextBarrier]_vars
  /\ WF_vars(StreamDtorUnlock)
  /\ \A f \in Facades : WF_vars(StreamDtorPoll(f))
  /\ \A s \in Subscribers :
       /\ WF_vars(SubTop(s))
       /\ WF_vars(SubSnap(s))
       /\ WF_vars(SubIter(s))
       /\ WF_vars(SubWaitLock(s))
       /\ WF_vars(SubWaitBlock(s))
       /\ WF_vars(SubExit(s))
       /\ WF_vars(SubDone(s))
       /\ WF_vars(SubEnd(s))
       /\ WF_vars(TermSet("user", s))
       /\ WF_vars(TermSet("scope", s))
       /\ SF_vars(TermSignal("user", s))
       /\ SF_vars(TermSignal("scope", s))
       /\ SF_vars(StreamDtorCallback(s))

\* ~StreamImpl of a stream that has been published into and is subscribed to
\* over HTTP only; requests for the entries and for the size arrive at any
\* moment, the destructor running or not. Scheduling is fair to every thread
\* that has started; a thread that asks for a mutex again and again gets it.
\* The endpoints answer Terminate. Nothing makes a request arrive or the
\* destructor start.
NextDestroy ==
  \/ \E s \in Subscribers : SubTop(s)
  \/ \E s \in Subscribers : SubSnap(s)
  \/ \E s \in Subscribers : SubIter(s)
  \/ \E s \in Subscribers : SubWaitLock(s)
  \/ \E s \in Subscribers : SubWaitBlock(s)
  \/ \E s \in Subscribers : SubExit(s)
  \/ \E s \in Subscribers : SubDone(s)
  \/ \E s \in Subscribers : SubEnd(s)
  \/ ServeStep(ShutdownQueries)
  \/ \E s \in Subscribers : Eraser(s)
  \/ \E f \in Facades : StreamDtorBegin(f)
  \/ \E s \in Subscribers : StreamDtorAsyncTerminate(s)
  \/ \E s \in Subscribers : TermSet("stream", s)
  \/ \E s \in Subscribers : TermSignal("stream", s)
  \/ \E s \in Subscribers : StreamDtorNext(s)
  \/ StreamDtorUnlock
  \/ \E f \in Facades : StreamDtorPoll(f)
  \/ \E f \in Facades : StreamDtorReturn(f)

SpecDestroy ==
  /\ InitPublished
  /\ [][NextDestroy]_vars
  /\ WF_vars(HttpSize)
  /\ SF_vars(HttpSubscribe)
  /\ WF_vars(HttpEmplace)
  /\ WF_vars(HttpReturn)
  /\ WF_vars(StreamDtorUnlock)
  /\ \A f \in Facades : SF_vars(StreamDtorPoll(f)) /\ WF_vars(StreamDtorReturn(f))
  /\ \A s \in Subscribers :
       /\ WF_vars(SubTop(s))
       /\ WF_vars(SubSnap(s))
       /\ WF_vars(SubIter(s))
       /\ SF_vars(SubWaitLock(s))
       /\ WF_vars(SubWaitBlock(s))
       /\ WF_vars(SubExit(s))
       /\ SF_vars(SubDone(s))
       /\ WF_vars(SubEnd(s))
       /\ SF_vars(Eraser(s))
       /\ WF_vars(StreamDtorAsyncTerminate(s))
       /\ WF_vars(TermSet("stream", s))
       /\ SF_vars(TermSignal("stream", s))
       /\ WF_vars(StreamDtorNext(s))

\* A stream with, possibly, a subscription registered under the id that
\* GenerateRandomHTTPSubscriptionID will return for the next one; the thread of
\* that earlier subscription stays in its wait and is not modelled.
InitRegistered ==
  /\ entries \in Streams
  /\ head = LastUs
  /\ now = Max(0, head)
  /\ below_head = FALSE
  /\ publish_mutex = "free"
  /\ publisher_mutex_ = [f \in Facades |-> "free"]
  /\ constructed = [f \in Facades |-> f = "a"]
  /\ own_data_ = [f \in Facades |-> f = "a"]
  /\ publisher_ = [f \in Facades |-> f = "a"]
  /\ authority_ = [f \in Facades |-> IF f = "a" THEN "Own" ELSE "External"]
  /\ acquirer_publisher = FALSE
  /\ pub = [t \in PubThreads |-> IdlePub]
  /\ sub = [s \in Subscribers |-> NoSub]
  /\ terminate_signal = [s \in Subscribers |-> FALSE]
  /\ termination_requested = [s \in Subscribers |-> FALSE]
  /\ subscriber_thread_done = [s \in Subscribers |-> FALSE]
  /\ term = [c \in TermCallers |-> <<"idle">>]
  /\ log = [s \in Subscribers |-> <<>>]
  /\ terminate_calls = [s \in Subscribers |-> 0]
  /\ scope = [s \in Subscribers |-> "none"]
  /\ destructing = FALSE
  /\ stream_dtor = <<"none">>
  /\ http_mutex = "free"
  /\ subscribers_map \in SUBSET Subscribers
  /\ eraser = [s \in Subscribers |-> "none"]
  /\ req = IdleReq
  /\ LibsUnused

\* Requests for the entries and for the size on such a stream, the publisher
\* publishing. Scheduling is fair to every thread that has started; a thread
\* that asks for a mutex again and again gets it. Nothing makes a request
\* arrive. HttpScopeJoin is no step of it: the thread joined needs, to end,
\* the mutex that the joining thread holds (ScopeJoinBlocked).
NextCollision ==
  \/ ClockPublishStep
  \/ \E s \in Subscribers : SubTop(s)
  \/ \E s \in Subscribers : SubSnap(s)
  \/ \E s \in Subscribers : SubIter(s)
  \/ \E s \in Subscribers : SubWaitLock(s)
  \/ \E s \in Subscribers : SubWaitBlock(s)
  \/ \E s \in Subscribers : SubExit(s)
  \/ \E s \in Subscribers : SubDone(s)
  \/ \E s \in Subscribers : SubEnd(s)
  \/ \E s \in Subscribers : Eraser(s)
  \/ ServeStep(ShutdownQueries)
  \/ HttpScopeDtor
  \/ \E s \in Subscribers : TermSet("http", s)
  \/ \E s \in Subscribers : TermSignal("http", s)

SpecCollision ==
  /\ InitRegistered
  /\ [][NextCollision]_vars
  /\ WF_vars(PubPersistPublish("caller"))
  /\ WF_vars(PubPersistUpdateHead("caller"))
  /\ WF_vars(PubNotify("caller"))
  /\ WF_vars(Return("caller"))
  /\ WF_vars(HttpSize)
  /\ SF_vars(HttpSubscribe)
  /\ WF_vars(HttpEmplace)
  /\ WF_vars(HttpReturn)
  /\ WF_vars(HttpScopeDtor)
  /\ \A s \in Subscribers :
       /\ WF_vars(SubTop(s))
       /\ WF_vars(SubSnap(s))
       /\ WF_vars(SubIter(s))
       /\ SF_vars(SubWaitLock(s))
       /\ WF_vars(SubWaitBlock(s))
       /\ WF_vars(SubExit(s))
       /\ SF_vars(SubDone(s))
       /\ WF_vars(SubEnd(s))
       /\ SF_vars(Eraser(s))
       /\ WF_vars(TermSet("http", s))
       /\ SF_vars(TermSignal("http", s))

\* ------------------------------------------------------- the Variant ----
\* The types a Variant may hold: CURRENT_STRUCT(Derived, Base) derives from
\* Base, Other is unrelated.
Types == {"Base", "Derived", "Other"}

\* The type lists: TypeListImpl<TYPES...>, as the set of its types.
TypeLists == SUBSET Types \ {{}}

\* A cast that succeeds for the very type only.
DynamicCast_Exact(object, x) == object = x

\* dynamic_cast<X*>(object_.get()) != nullptr: the object is an X, or of a type
\* derived from X; nullptr when there is no object.
DynamicCast(object, x) ==
  object # "null" /\ (object = x \/ (object = "Derived" /\ x = "Base"))

\* The Variant<TYPES...> of type list `tl` holding `o` ("null" for none), and
\* the operation applied to it: what it threw, the type the visitor was
\* called with, and the object_ of the Variant constructed from it.
VariantOf(tl, o) ==
  [pc |-> "ready", typelist |-> tl, held |-> o, object_ |-> o, op |-> "none", arg |-> "none",
   result |-> "none", called |-> "none", into |-> "none"]

\* A Variant of any type list, empty or holding one of its types.
InitVariant ==
  /\ entries = <<>>
  /\ head = InitialHead
  /\ now = 0
  /\ InitObjects
  /\ lines = NoLines
  /\ variant \in {VariantOf(tl, o) : tl \in TypeLists, o \in Types \cup {"null"}}
  /\ variant.held \in variant.typelist \cup {"null"}

OtherVarsUnchanged ==
  UNCHANGED <<terminate_calls, scope, http_vars, persister_vars, mutex_vars, facade_vars, pub,
              sub_vars>>

\* VariantImpl::Call(f): RTTIDynamicCall passes the object to the visitor, or
\* UninitializedVariantOfTypeException when there is none.
VariantCall ==
  /\ variant.pc = "ready"
  /\ variant' = IF variant.object_ # "null"
                  THEN [variant EXCEPT !.pc = "done", !.op = "Call", !.result = "ok",
                                       !.called = variant.object_]
                  ELSE [variant EXCEPT !.pc = "done", !.op = "Call",
                                       !.result = "UninitializedVariant"]
  /\ UNCHANGED lines
  /\ OtherVarsUnchanged

\* VariantImpl::VariantValueImpl<X>(): the object when the dynamic_cast
\* succeeds, NoValueOfTypeException otherwise.
VariantValue(x) ==
  /\ variant.pc = "ready"
  /\ variant' = [variant EXCEPT !.pc = "done", !.op = "Value", !.arg = x,
                                !.result = IF DynamicCast(variant.object_, x)
                                             THEN "ok" ELSE "NoValueOfType"]
  /\ UNCHANGED lines
  /\ OtherVarsUnchanged

\* VariantImpl(const VariantImpl<RHS...>&), CopyFrom: TypeAwareClone copies a
\* type of the destination's list and throws on any other.
VariantCopy(tl) ==
  /\ variant.pc = "ready"
  /\ variant' = IF variant.object_ = "null"
                  THEN [variant EXCEPT !.pc = "done", !.op = "Copy", !.arg = tl,
                                       !.result = "ok", !.into = "null"]
                  ELSE IF variant.object_ \in tl
                    THEN [variant EXCEPT !.pc = "done", !.op = "Copy", !.arg = tl,
                                         !.result = "ok", !.called = variant.object_,
                                         !.into = variant.object_]
                    ELSE [variant EXCEPT !.pc = "done", !.op = "Copy", !.arg = tl,
                                         !.result = "IncompatibleVariantType",
                                         !.called = variant.object_]
  /\ UNCHANGED lines
  /\ OtherVarsUnchanged

\* VariantImpl(VariantImpl<RHS...>&&), MoveFrom: TypeAwareMove moves the
\* unique_ptr for a type of the destination's list and throws, before it
\* moves, on any other.
VariantMove(tl) ==
  /\ variant.pc = "ready"
  /\ variant' = IF variant.object_ = "null"
                  THEN [variant EXCEPT !.pc = "done", !.op = "Move", !.arg = tl,
                                       !.result = "ok", !.into = "null"]
                  ELSE IF variant.object_ \in tl
                    THEN [variant EXCEPT !.pc = "done", !.op = "Move", !.arg = tl,
                                         !.result = "ok", !.called = variant.object_,
                                         !.into = variant.object_, !.object_ = "null"]
                    ELSE [variant EXCEPT !.pc = "done", !.op = "Move", !.arg = tl,
                                         !.result = "IncompatibleVariantType",
                                         !.called = variant.object_]
  /\ UNCHANGED lines
  /\ OtherVarsUnchanged

\* One operation on one Variant.
NextVariant ==
  \/ VariantCall
  \/ \E x \in Types : VariantValue(x)
  \/ \E tl \in TypeLists : VariantCopy(tl)
  \/ \E tl \in TypeLists : VariantMove(tl)

SpecVariant == InitVariant /\ [][NextVariant]_vars

\* ------------------------------------------------- GroupByLines ----
\* The characters of the strings fed: two letters, the newline and the
\* character of value zero.
Chars == {"a", "b", "LF", "NUL"}

\* The longest string of one Feed, and the most characters fed in all.
MaxChunk == 2
MaxFed == 4

\* The std::string values of at most `n` characters.
Strings(n) == UNION {[1..k -> Chars] : k \in 0..n}

\* std::string::c_str() read as a C string: the characters before the first
\* one of value zero.
RECURSIVE CStr(_)
CStr(s) ==
  IF s = <<>> \/ Head(s) = "NUL" THEN <<>> ELSE <<Head(s)>> \o CStr(Tail(s))

\* Feed(const char* s), the loop: characters go to residual_ up to a newline,
\* at which f_ is called with residual_ and residual_ cleared; the end of the
\* C string ends the call. `g` holds residual_ and the calls of f_.
RECURSIVE FeedLoop(_, _)
FeedLoop(g, s) ==
  IF s = <<>> THEN g
  ELSE IF Head(s) = "LF"
    THEN FeedLoop([g EXCEPT !.calls = Append(@, g.residual_), !.residual_ = <<>>], Tail(s))
    ELSE FeedLoop([g EXCEPT !.residual_ = Append(@, Head(s))], Tail(s))

\* ~GenericStatefulGroupByLines: f_ is called with a residual_ that is not
\* empty.
AtDestruction(g) ==
  [g EXCEPT !.pc = "destroyed",
            !.calls = IF g.residual_ # <<>> THEN Append(@, g.residual_) ELSE @]

\* GenericStatefulGroupByLines(f): nothing fed, nothing called. `fed` is the
\* concatenation of the strings passed to Feed.
NewLines == [pc |-> "alive", fed |-> <<>>, residual_ |-> <<>>, calls |-> <<>>]

InitLines ==
  /\ entries = <<>>
  /\ head = InitialHead
  /\ now = 0
  /\ InitObjects
  /\ variant = NoVariant
  /\ lines = NewLines

\* Feed(const std::string& s): Feed(s.c_str()).
FeedString(s) ==
  /\ lines.pc = "alive"
  /\ Len(lines.fed) + Len(s) <= MaxFed
  /\ lines' = [FeedLoop(lines, CStr(s)) EXCEPT !.fed = lines.fed \o s]
  /\ OtherVarsUnchanged
  /\ UNCHANGED variant

\* Feed(const char* s), called with a C string.
FeedCStr(s) ==
  /\ lines.pc = "alive"
  /\ Len(lines.fed) + Len(s) <= MaxFed
  /\ \A i \in 1..Len(s) : s[i] # "NUL"
  /\ lines' = [FeedLoop(lines, s) EXCEPT !.fed = lines.fed \o s]
  /\ OtherVarsUnchanged
  /\ UNCHANGED variant

\* The object is destroyed.
LinesDestroy ==
  /\ lines.pc = "alive"
  /\ lines' = AtDestruction(lines)
  /\ OtherVarsUnchanged
  /\ UNCHANGED variant

NextLines ==
  \/ \E s \in Strings(MaxChunk) : FeedString(s)
  \/ \E s \in Strings(MaxChunk) : FeedCStr(s)
  \/ LinesDestroy

SpecLines == InitLines /\ [][NextLines]_vars

\* ------------------------------------------------------------ claims ----
\* The entries subscriber `s` has passed through the type-match step, and the
\* calls made on it with the head alone.
EntryCalls(s) == SelectSeq(log[s], LAMBDA e : e[1] # "head")
HeadCalls(s) == SelectSeq(log[s], LAMBDA e : e[1] = "head")

\* A publishing thread came back from `op` with `result`.
Returned(t, op, result) ==
  pub[t].pc = "done" /\ pub[t].op = op /\ pub[t].result = result

(* C1: the indexes of the entries a subscriber passes to the type-match step
   are begin_idx, begin_idx + 1, ... in this order, with no gap and no
   duplicate, however Publish, UpdateHead and termination interleave. *)
C1_ContiguousIndexes ==
  \A s \in Subscribers :
    \A k \in 1..Len(EntryCalls(s)) : EntryCalls(s)[k][2] = sub[s].begin_idx + k - 1

\* A subscriber from index 1 that went through two rounds of the loop (an entry,
\* then the moved head) and was asked to terminate.
C1_Witness ==
  \E s \in Subscribers :
    /\ sub[s].begin_idx = 1
    /\ Len(EntryCalls(s)) = 1
    /\ Len(HeadCalls(s)) = 1
    /\ sub[s].terminate_sent

\* Entry `i` has been published and subscriber `s`, subscribed from an index at
\* or below it, has not been passed it.
Owed(s, i) ==
  /\ Len(entries) > i
  /\ \A t \in PubThreads : pub[t].pc \in {"idle", "done"}
  /\ sub[s].pc \notin {"none", "exit", "finished", "unlock", "ended"}
  /\ sub[s].begin_idx <= i
  /\ \A k \in 1..Len(EntryCalls(s)) : EntryCalls(s)[k][2] # i

\* Subscriber `s` has been passed entry `i`, or its thread is over.
Settled(s, i) ==
  \/ \E k \in 1..Len(EntryCalls(s)) : EntryCalls(s)[k][2] = i
  \/ sub[s].pc \in {"exit", "finished", "unlock", "ended"}

(* C2: once a publish has returned with index i, every subscriber with
   begin_idx <= i that has not terminated and keeps answering Continue is
   eventually passed entry i, under fair scheduling and with no further publish
   or head update needed. Stated for the runs in which every entry is published
   above the head of its time. *)
C2_EventuallyDelivered ==
  \A s \in Subscribers : \A i \in 0..(MaxEntries - 1) :
    (Owed(s, i) /\ ~below_head) ~> (Settled(s, i) \/ below_head)

(* C3: every publish and every update_head, through the facade or through an
   external handle, holds publish_mutex while the persister is mutated and
   while notify_all is issued. *)
C3_PublishMutexHeld ==
  \A t \in PubThreads : pub[t].pc \in {"persist", "notify"} => publish_mutex = t

(* C4: the timestamps of the entries are strictly increasing in the index,
   rejected publishes in between included. *)
C4_TimestampsIncrease ==
  \A i \in 1..Len(entries) : \A j \in 1..Len(entries) : i < j => entries[i] < entries[j]

\* Two entries, and a publish that was rejected.
C4_Witness ==
  /\ Len(entries) = 2
  /\ \E t \in PubThreads : Returned(t, "Publish", "InconsistentTimestamp")

(* C5: the head never decreases across Publish and UpdateHead, successful or
   failed, and once an entry exists the head is at least its timestamp. *)
C5_HeadMonotone ==
  [][/\ head' >= head
     /\ Len(entries') > 0 => head' >= entries'[Len(entries')]]_vars

\* An entry published below a head that had moved past it, and a rejected
\* UpdateHead.
C5_Witness ==
  /\ below_head
  /\ head > LastUs
  /\ \E t \in PubThreads : Returned(t, "UpdateHead", "InconsistentTimestamp")

(* C6: the heads passed to the head-only callback are strictly increasing, and
   each is at least the timestamp of the last entry delivered before it. *)
C6_HeadsIncrease ==
  \A s \in Subscribers :
    \A i \in 1..Len(log[s]) : \A j \in 1..Len(log[s]) :
      (j < i /\ log[s][i][1] = "head") =>
        IF log[s][j][1] = "head" THEN log[s][j][2] < log[s][i][2]
                                 ELSE log[s][j][3] <= log[s][i][2]

\* Two head-only calls after an entry.
C6_Witness ==
  \E s \in Subscribers :
    /\ Len(log[s]) = 3
    /\ log[s][1][1] # "head"
    /\ log[s][2][1] = "head"
    /\ log[s][3][1] = "head"

\* Subscriber `s` got an entry with a timestamp at or below a head passed to it
\* earlier.
EntryAfterLaterHead(s) ==
  \E i \in 1..Len(log[s]) : \E j \in 1..Len(log[s]) :
    /\ i < j
    /\ log[s][i][1] = "head"
    /\ log[s][j][1] # "head"
    /\ log[s][j][3] <= log[s][i][2]

(* C7, as stated: for a subscriber with begin_idx = 0 and every sequence of
   publishes the persister accepts, once a head-only advance H has been
   delivered no entry with us <= H is delivered afterwards. *)
C7_NoEntryBelowDeliveredHead ==
  \A s \in Subscribers : sub[s].begin_idx = 0 => ~EntryAfterLaterHead(s)

(* C7, amended: the same for every sequence of publishes in which each entry's
   timestamp is above the head of the time it is published. *)
C7_NoEntryBelowDeliveredHead_AboveHead ==
  ~below_head => \A s \in Subscribers : sub[s].begin_idx = 0 => ~EntryAfterLaterHead(s)

\* A head-only call followed by an entry, all entries published above the head.
C7_Witness ==
  /\ ~below_head
  /\ \E s \in Subscribers :
       /\ sub[s].begin_idx = 0
       /\ \E i \in 1..Len(log[s]) : \E j \in 1..Len(log[s]) :
            i < j /\ log[s][i][1] = "head" /\ log[s][j][1] # "head"

\* The number of live publisher handles of the stream: those in the slots of the
\* facade objects, and the one of the acquirer.
LiveHandles ==
  Cardinality({f \in Facades : publisher_[f]}) + (IF acquirer_publisher THEN 1 ELSE 0)

(* C8: after any sequence of MovePublisherTo, AcquirePublisher, stream moves and
   acquirer actions, the number of live publisher handles of the stream is
   exactly one, held by the facade or by one external acquirer. *)
C8_ExactlyOneHandle == LiveHandles = 1

\* Thread `t` makes call `op` in this step, from start to end.
Calls(t, op) ==
  pub[t].pc = "idle" /\ pub'[t].pc = "done" /\ pub'[t].op = op

\* The acquirer passes its handle in this step.
PassesHandle == acquirer_publisher /\ ~acquirer_publisher'

\* What a MovePublisherTo on facade `f` does.
MoveOutcome(f) ==
  /\ pub'["caller"].result = "ok" <=> publisher_[f]
  /\ pub'["caller"].result = "ok" =>
       acquirer_publisher' /\ ~publisher_'[f] /\ authority_'[f] = "External"
  /\ pub'["caller"].result # "ok" =>
       /\ pub'["caller"].result = "PublisherAlreadyReleased"
       /\ UNCHANGED <<publisher_, authority_, acquirer_publisher>>

\* What an AcquirePublisher on facade `f` does.
AcquireOutcome(f) ==
  /\ pub'["acquirer"].result = "ok" <=> ~publisher_[f]
  /\ pub'["acquirer"].result = "ok" =>
       /\ authority_'[f] = "Own"
       /\ publisher_'[f] = PassesHandle
       /\ \A g \in Facades \ {f} : publisher_'[g] = publisher_[g]
  /\ pub'["acquirer"].result # "ok" =>
       /\ pub'["acquirer"].result = "PublisherAlreadyOwned"
       /\ UNCHANGED <<publisher_, authority_>>

(* C9: MovePublisherTo succeeds iff the facade holds the handle, after which the
   acquirer holds it and the authority is External; AcquirePublisher succeeds
   iff the facade holds no handle, after which the facade holds the handle
   passed and the authority is Own; a failing MovePublisherTo
   (PublisherAlreadyReleased) or AcquirePublisher (PublisherAlreadyOwned) leaves
   slot and authority unchanged. *)
C9_HandOffOutcome ==
  [][/\ Calls("caller", "MovePublisherTo") => MoveOutcome(pub'["caller"].facade)
     /\ Calls("acquirer", "AcquirePublisher") => AcquireOutcome(pub'["acquirer"].facade)
    ]_vars

\* A MovePublisherTo that failed after one that succeeded, and the handle
\* returned since.
C9_Witness ==
  /\ Returned("caller", "MovePublisherTo", "PublisherAlreadyReleased")
  /\ Returned("acquirer", "AcquirePublisher", "ok")
  /\ publisher_["a"]
  /\ authority_["a"] = "Own"

\* The caller starts a Publish or an UpdateHead on a facade in this step.
FacadeCalls(f) ==
  /\ pub["caller"].pc = "idle"
  /\ pub'["caller"].pc # "idle"
  /\ pub'["caller"].op \in Ops
  /\ pub'["caller"].facade = f

(* C10: while the authority is External every Publish and UpdateHead on the
   facade fails with PublishToStreamWithReleasedPublisher and changes neither
   the persister nor what subscribers are delivered; only the external holder
   appends, and subscribers get what it publishes; once AcquirePublisher has
   returned the handle, the calls on the facade go through to the persister
   again. *)
C10_ReleasedPublisher ==
  [][\A f \in Facades :
       /\ (FacadeCalls(f) /\ authority_[f] = "External") =>
            /\ pub'["caller"].pc = "done"
            /\ pub'["caller"].result = "PublishToStreamWithReleasedPublisher"
            /\ UNCHANGED <<entries, head, log>>
       /\ (authority_[f] = "External" /\ own_data_[f] /\ entries' # entries) =>
            pub["acquirer"].pc = "persist"
       /\ (FacadeCalls(f) /\ publisher_[f]) => pub'["caller"].pc = "persist"
    ]_vars

\* The facade was refused, the acquirer published, and the subscriber got the
\* entry.
C10_Witness ==
  /\ Returned("caller", "Publish", "PublishToStreamWithReleasedPublisher")
  /\ Returned("acquirer", "Publish", "ok")
  /\ Len(entries) = 1
  /\ \E s \in Subscribers : Len(EntryCalls(s)) = 1

\* Thread `t` comes back from the persister with InconsistentTimestamp in this
\* step.
Rejected(t) ==
  /\ pub[t].pc = "persist"
  /\ pub'[t].pc = "done"
  /\ pub'[t].result = "InconsistentTimestamp"

\* Thread `t` is in a Publish with a timestamp the persister accepts.
ValidPublish(t) ==
  /\ pub[t].pc = "persist"
  /\ pub[t].op = "Publish"
  /\ pub[t].arg # <<>>
  /\ pub[t].arg[1] > LastUs

(* C12: when the persister rejects a Publish or an UpdateHead with
   InconsistentTimestamp, the caller gets the error out of the call with its
   locks released, the size, the last entry and the head of the stream are what
   they were, and no waiter is woken; a Publish with a valid timestamp, whatever
   was rejected before it, is accepted and appended at the next index. *)
C12_RejectedLeavesIntact ==
  [][\A t \in PubThreads :
       /\ Rejected(t) =>
            /\ UNCHANGED <<entries, head>>
            /\ \A s \in Subscribers : sub'[s] = sub[s]
            /\ publish_mutex' # t
            /\ \A f \in Facades : publisher_mutex_'[f] # t
       /\ (ValidPublish(t) /\ pub'[t] # pub[t]) =>
            /\ pub'[t].pc = "notify"
            /\ entries' = Append(entries, pub[t].arg[1])
    ]_vars

\* A Publish was rejected while a subscriber that had been passed the one entry
\* of the stream was blocked in its wait.
C12_Witness ==
  /\ Returned("caller", "Publish", "InconsistentTimestamp")
  /\ Len(entries) = 1
  /\ \E s \in Subscribers : sub[s].pc = "blocked" /\ Len(EntryCalls(s)) = 1

\* The calls of the entry callback of subscriber `s`.
EntryCallbacks(s) == SelectSeq(log[s], LAMBDA e : e[1] = "entry")

\* The thread of subscriber `s` is between two rounds of its loop.
BetweenRounds(s) == sub[s].pc \in {"top", "snap", "wait_lock", "wait_block", "blocked", "woken"}

(* C17: with a type filter over a subset of the cases, the entries at the
   indexes from begin_idx on go through the type-match step one by one in the
   order of the stream; the entry callback is called for the ones whose case is
   subscribed to, the no-match response is asked for each of the others; after a
   round the next index is past all of them; and Done, from the callback or
   from the no-match response, ends the thread. *)
C17_TypeFilter ==
  \A s \in Subscribers :
    /\ \A k \in 1..Len(EntryCalls(s)) :
         LET e == EntryCalls(s)[k] IN
         /\ e[2] = sub[s].begin_idx + k - 1
         /\ e[2] < Len(entries)
         /\ e[3] = entries[e[2] + 1]
         /\ e[1] = "entry" <=> CaseOf(e[3]) \in TypeSubscribedTo
         /\ e[1] = "no_match" <=> CaseOf(e[3]) \notin TypeSubscribedTo
    /\ (BetweenRounds(s) /\ Len(EntryCalls(s)) > 0) =>
         sub[s].index = sub[s].begin_idx + Len(EntryCalls(s))
    /\ sub[s].response = "Done" => sub[s].pc \in {"exit", "finished", "unlock", "ended"}

\* From index 0: an entry of a case subscribed to went to the entry callback,
\* then one of the other case got the no-match response, which was Done.
C17_Witness ==
  \E s \in Subscribers :
    /\ sub[s].begin_idx = 0
    /\ Len(log[s]) = 2
    /\ log[s][1][1] = "entry"
    /\ log[s][2][1] = "no_match"
    /\ sub[s].response = "Done"

\* The branch that has served, or is serving, the request of the HTTP thread.
Served ==
  IF req.pc \in {"terminate", "terminating"} \/ req.response \in {"404", "200_terminated"}
    THEN "terminate"
  ELSE IF req.response = "405" THEN "method_not_allowed"
  ELSE IF req.response = "200_size" THEN "size"
  ELSE IF req.response = "200_schema" THEN "schema"
  ELSE "stream"

\* The request of the HTTP thread got past the entry of ServeDataViaHTTP and has
\* been dispatched.
Dispatched == req.pc \notin {"idle", "size"} /\ req.response # "503"

GetOrHead(q) == q.method \in {"GET", "HEAD"}

(* C18: a request is served by precedence. With terminate it is served as a
   termination, whatever the method; else with a method other than GET and HEAD
   it gets 405, whatever else it has; else with sizeonly it gets the size; else
   with schema the schema; and the start is selected, and a subscription made,
   only for a request with none of these. *)
C18_DispatchPrecedence ==
  Dispatched =>
    LET q == req.q IN
    /\ q.terminate # <<>> => Served = "terminate"
    /\ (q.terminate = <<>> /\ ~GetOrHead(q)) => Served = "method_not_allowed"
    /\ (q.terminate = <<>> /\ GetOrHead(q) /\ q.sizeonly) => Served = "size"
    /\ (q.terminate = <<>> /\ GetOrHead(q) /\ ~q.sizeonly /\ q.schema) => Served = "schema"
    /\ (Served = "stream" \/ req.response = "200_chunked") =>
         (q.terminate = <<>> /\ GetOrHead(q) /\ ~q.sizeonly /\ ~q.schema)

\* A POST with terminate, sizeonly and schema ended the subscription an earlier
\* request had made.
C18_Witness ==
  /\ req.pc = "done"
  /\ req.q.method = "POST"
  /\ req.q.sizeonly
  /\ req.q.schema
  /\ req.response = "200_terminated"
  /\ \E s \in Subscribers : terminate_signal[s]

\* The start of the request of the HTTP thread has been selected.
StartSelected ==
  \/ req.pc = "subscribe"
  \/ req.pc = "done" /\ req.response \in {"200_nowait", "200_chunked"}

\* The start the table of options gives for option `o` alone (and `i` with
\* tail), on a stream of `size` entries, for a request received at `timestamp`.
StartBy(o, q, size, timestamp) ==
  IF o = "tail"
    THEN IF q.tail[1] = TailAll THEN size
         ELSE Max(ValueOrZero(q.i), IF q.tail[1] < size THEN size - q.tail[1] ELSE 0)
  ELSE IF o = "recent" THEN Min(FirstIndexAtOrAfter(timestamp - q.recent[1]), size)
  ELSE IF o = "since" THEN Min(FirstIndexAtOrAfter(q.since[1]), size)
  ELSE ValueOrZero(q.i)

\* The first of tail, recent, since the URL has, `i` when it has none.
FirstSupplied(q) ==
  IF q.tail # <<>> THEN "tail"
  ELSE IF q.recent # <<>> THEN "recent"
  ELSE IF q.since # <<>> THEN "since"
  ELSE "i"

\* The first of tail, recent, since the URL has with a value other than 0.
FirstSuppliedNonZero(q) ==
  IF ValueOrZero(q.tail) # 0 THEN "tail"
  ELSE IF ValueOrZero(q.recent) # 0 THEN "recent"
  ELSE IF ValueOrZero(q.since) # 0 THEN "since"
  ELSE "i"

(* C19, as stated: the start is the one of the first option supplied in the
   order tail, recent, since, i, for every combination of values, 0 included. *)
C19_StartPrecedence ==
  StartSelected =>
    req.begin_idx = StartBy(FirstSupplied(req.q), req.q, req.stream_size, req.timestamp)

(* C19, amended: the start is the one of the first option in the order tail,
   recent, since, i that is supplied with a value other than 0; tail=0, recent=0
   and since=0 count as not supplied. *)
C19_StartPrecedence_NonZero ==
  StartSelected =>
    req.begin_idx =
      StartBy(FirstSuppliedNonZero(req.q), req.q, req.stream_size, req.timestamp)

\* A request with all four options, each with a value other than 0, on a stream
\* of two entries: tail=1 puts the start at the last entry.
C19_Witness ==
  /\ StartSelected
  /\ Len(entries) = 2
  /\ req.q.tail = <<1>>
  /\ ValueOrZero(req.q.recent) > 0
  /\ ValueOrZero(req.q.since) > 0
  /\ req.q.i = <<0>>
  /\ req.begin_idx = 1

(* C20: a request with a timestamp-based start (recent or since, none of tail)
   and with i=N starts at max(N, the first index whose timestamp is at or after
   the timestamp asked for). *)
C20_MaxOfIndexAndTimestamp ==
  (/\ StartSelected
   /\ req.q.i # <<>>
   /\ FirstSuppliedNonZero(req.q) \in {"recent", "since"}) =>
    req.begin_idx =
      Max(req.q.i[1],
          StartBy(FirstSuppliedNonZero(req.q), req.q, req.stream_size, req.timestamp))

\* The subscriber of `s` was asked to terminate and answered Wait: its thread
\* goes on.
AnsweredWait(s) ==
  sub[s].terminate_sent /\ sub[s].pc \notin {"exit", "finished", "unlock", "ended"}

(* C13: the destructor of a scope the user holds requests termination when
   it was not requested, and returns only after the subscriber thread has
   ended; once it has returned no callback is made on the subscriber; and a
   destructor that has started returns unless the subscriber answered Wait
   to the termination request. *)
C13_ScopeDestructorJoins ==
  /\ [](\A s \in Subscribers :
          /\ scope[s] = "dtor" => (termination_requested[s] \/ term["scope"] = <<"set", s>>)
          /\ scope[s] = "destroyed" => (termination_requested[s] /\ sub[s].pc = "ended"))
  /\ [][\A s \in Subscribers :
          scope[s] = "destroyed" =>
            (log'[s] = log[s] /\ terminate_calls'[s] = terminate_calls[s])]_vars
  /\ \A s \in Subscribers :
       (scope[s] = "dtor") ~> (scope[s] = "destroyed" \/ AnsweredWait(s))

\* The destructor of a scope nobody had asked to terminate has returned, after
\* the subscriber had received an entry and then the termination request.
C13_Witness ==
  \E s \in Subscribers :
    /\ scope[s] = "destroyed"
    /\ terminate_calls[s] = 1
    /\ Len(log[s]) > 0
    /\ \A c \in UserThreads : term[c] = <<"idle">>

\* No thread is inside TerminateSubscription().
NoTerminationInProgress == \A c \in TermCallers : term[c][1] \in {"idle", "return"}

(* C14: however many calls of AsyncTerminate the threads of the user make,
   and however they interleave with each other and with the subscriber thread,
   the subscriber is asked to terminate at most once, every step of a call can
   be taken whatever the subscriber thread is doing (publish_mutex being free
   for the signalling step), and when no call is in progress the state is the
   one a single call leaves: termination requested, and the signal raised
   unless the thread was done. *)
C14_AsyncTerminateIdempotent ==
  \A s \in Subscribers :
    /\ terminate_calls[s] <= 1
    /\ (NoTerminationInProgress /\ termination_requested[s]) =>
         (terminate_signal[s] \/ subscriber_thread_done[s])
    /\ \A c \in UserThreads :
         /\ term[c] = <<"set", s>> => ENABLED TermSet(c, s)
         /\ (term[c] = <<"signal", s>> /\ publish_mutex = "free") => ENABLED TermSignal(c, s)
         /\ term[c] = <<"return", s>> => ENABLED AsyncTerminateReturn(c, s)

\* Two calls raced: one has raised the signal and returned, the subscriber
\* was asked once and answered Wait, and the other call is about to raise the
\* signal again.
C14_Witness ==
  \E s \in Subscribers :
    /\ term["other"] = <<"return", s>>
    /\ term["user"] = <<"signal", s>>
    /\ terminate_signal[s]
    /\ terminate_calls[s] = 1
    /\ AnsweredWait(s)


\* The stream and its subscriptions are what they were.
StreamUntouched == UNCHANGED <<entries, head, sub, subscribers_map>>

(* C11: once the data is in destructing mode, a publish or update_head that
   starts through the handle fails with StreamInGracefulShutdown, a Subscribe
   that starts fails and leaves no scope, an HTTP request that arrives is
   answered 503, and none of these steps changes the entries, the head, the
   subscriber threads or subscribers_map. *)
C11_TeardownRefuses ==
  [][destructing =>
       /\ (pub["acquirer"].pc = "idle" /\ pub'["acquirer"].pc # "idle") =>
            /\ pub'["acquirer"].pc = "done"
            /\ pub'["acquirer"].result = "StreamInGracefulShutdown"
            /\ StreamUntouched
       /\ \A s \in Subscribers :
            (scope[s] = "none" /\ scope'[s] # "none") =>
              (scope'[s] = "refused" /\ StreamUntouched)
       /\ (req.pc = "idle" /\ req'.pc # "idle") =>
            (req'.pc = "done" /\ req'.response = "503" /\ StreamUntouched)]_vars

\* During the teardown of a stream with an entry, a call through the handle
\* has failed, a Subscribe was refused and a request was answered 503.
C11_Witness ==
  /\ destructing
  /\ Len(entries) > 0
  /\ pub["acquirer"].pc = "done"
  /\ pub["acquirer"].result = "StreamInGracefulShutdown"
  /\ \E s \in Subscribers : scope[s] = "refused"
  /\ req.pc = "done"
  /\ req.response = "503"

(* C15: when ~StreamImpl and the destruction of its members have returned,
   every subscriber thread that was started, over HTTP or by the user, has
   ended and has been joined by the destructor of its scope, and
   subscribers_map is empty. *)
C15_FacadeDestructorJoinsAll ==
  stream_dtor = <<"returned">> =>
    /\ \A s \in Subscribers :
         /\ sub[s].pc \in {"none", "ended"}
         /\ scope[s] \in {"none", "refused", "destroyed"}
    /\ subscribers_map = {}

\* The destructor has returned after an HTTP subscription that had received an
\* entry was asked once to terminate and its entry of the map erased.
C15_Witness ==
  /\ stream_dtor = <<"returned">>
  /\ \E s \in Subscribers :
       /\ eraser[s] = "done"
       /\ Len(log[s]) > 0
       /\ terminate_calls[s] = 1

\* Thread `c` takes publish_mutex for SignalExternalTermination() in this step.
SignalsUnderPublishMutex(c) ==
  \E s \in Subscribers : term[c] = <<"signal", s>> /\ term'[c] = <<"return", s>>

(* C16, as stated: in no step does a thread that holds
   http_subscriptions->mutex acquire publish_mutex. *)
C16_NoPublishMutexUnderHttpMutex ==
  [][/\ \A c \in TermCallers : SignalsUnderPublishMutex(c) => http_mutex # c
     /\ publish_mutex' \notin {publish_mutex, "free"} => http_mutex # publish_mutex']_vars

\* The thread of the subscriber of `s`, of the HTTP server, of the destructor
\* of the facade, or the eraser, locks http_subscriptions->mutex in this step.
LocksHttpMutex(th) ==
  \/ th \in Subscribers /\ sub[th].pc = "finished" /\ sub'[th].pc = "unlock"
  \/ th = "http" /\ req.pc \in {"subscribe", "terminate"} /\ req' # req
  \/ th = "stream" /\ stream_dtor \in {<<"none">>, <<"poll">>} /\ stream_dtor' # stream_dtor
  \/ th = "eraser" /\ eraser' # eraser /\ \E s \in Subscribers : eraser'[s] = "done"

(* C16, amended: the order is the other one. In no step does a thread that
   holds publish_mutex acquire http_subscriptions->mutex. *)
C16_NoHttpMutexUnderPublishMutex ==
  [][\A th \in Subscribers \cup {"http", "stream", "eraser"} :
       LocksHttpMutex(th) => publish_mutex # th]_vars

\* The destructor of the facade, holding http_subscriptions->mutex, has taken
\* publish_mutex to signal an HTTP subscriber that was waiting.
C16_Witness ==
  \E s \in Subscribers :
    /\ http_mutex = "stream"
    /\ term["stream"] = <<"return", s>>
    /\ terminate_signal[s]
    /\ sub[s].pc = "woken"

\* The request being served selected its start by tail=N with N > 0.
StartByTail ==
  StartSelected /\ req.q.tail # <<>> /\ req.q.tail[1] > 0

\* The indexes of the last `n` entries of a stream of `size` entries.
LastN(n, size) == {k \in 0..(size - 1) : k + n >= size}

(* C21: for tail=N with N > 0 the start is the size when N is the largest
   value, and otherwise the larger of i and size - N, with size - N taken as 0
   when N >= size; in the second case no entry among the last N that is at or
   after i lies before the start. *)
C21_TailStart ==
  StartByTail =>
    LET n == req.q.tail[1]
        size == req.stream_size
        i == ValueOrZero(req.q.i)
    IN IF n = TailAll
         THEN req.begin_idx = size
         ELSE /\ req.begin_idx = Max(i, IF n >= size THEN 0 ELSE size - n)
              /\ \A k \in LastN(n, size) : k >= i => k >= req.begin_idx

\* A request with tail=N for more entries than the stream has, and it has
\* some: it starts at the first one.
C21_Witness ==
  /\ StartByTail
  /\ req.q.tail[1] # TailAll
  /\ req.stream_size > 0
  /\ req.q.tail[1] > req.stream_size
  /\ req.begin_idx = 0

\* The request being served has nowait and has not got to the subscription.
NoWaitPath(r) ==
  /\ r.pc # "idle"
  /\ r.q.nowait
  /\ r.pc \in {"size", "by_timestamp"} \/ r.response = "200_nowait"

(* C22: a request with nowait whose start is at or beyond the size the
   handler read is answered 200 at once and never gets to the subscription; no
   step it takes on the way starts a subscriber thread, adds a scope or an
   entry of subscribers_map, or takes http_subscriptions->mutex or
   publish_mutex; and each of these steps can be taken whoever holds the two
   mutexes and whatever the publisher and the subscribers are doing. *)
C22_NoWaitAnswersAtOnce ==
  /\ [](/\ (StartSelected /\ req.q.nowait /\ req.begin_idx >= req.stream_size) =>
            (req.pc = "done" /\ req.response = "200_nowait")
        /\ (req.pc = "size" /\ req.q.nowait) => ENABLED HttpSize
        /\ (req.pc = "by_timestamp" /\ req.q.nowait) => ENABLED HttpByTimestamp
        /\ (req.pc = "done" /\ req.response = "200_nowait") => ENABLED HttpReturn)
  /\ [][(req' # req /\ NoWaitPath(req')) =>
          UNCHANGED <<sub, scope, subscribers_map, http_mutex, publish_mutex, entries, head>>]_vars

\* A request with nowait was answered 200 at the end of a stream that has an
\* entry, while the acquirer held publish_mutex and the destructor of the
\* facade http_subscriptions->mutex.
C22_Witness ==
  /\ req.pc = "done"
  /\ req.response = "200_nowait"
  /\ req.stream_size > 0
  /\ publish_mutex = "acquirer"
  /\ http_mutex = "stream"

\* The id a terminate request names.
TerminateId(r) == r.q.terminate[1]

\* The HTTP thread looks the id up in this step.
LooksUp == req.pc = "terminate" /\ req' # req

(* C23: a terminate=X request is answered 200, with termination requested on
   the subscription, when X is in subscribers_map at the lookup, and 404 when
   it is not; after a 200 the entry of X is eventually removed, its thread
   having ended; and a terminate=X looked up after that is answered 404. *)
C23_TerminateRequest ==
  /\ [][LooksUp =>
          IF TerminateId(req) \in subscribers_map
            THEN req'.pc = "terminating"
            ELSE req'.pc = "done" /\ req'.response = "404"]_vars
  /\ [](req.pc = "terminating" => TerminateId(req) \in subscribers_map)
  /\ [][(req.pc = "terminating" /\ req'.pc # "terminating") =>
          /\ req'.pc = "done"
          /\ req'.response = "200_terminated"
          /\ termination_requested[TerminateId(req)]]_vars
  /\ \A s \in Subscribers :
       (req.pc = "done" /\ req.response = "200_terminated" /\ TerminateId(req) = s)
         ~> (s \notin subscribers_map /\ sub[s].pc = "ended" /\ eraser[s] = "done")
  /\ [][\A s \in Subscribers :
          (eraser[s] = "done" /\ LooksUp /\ TerminateId(req) = s) =>
            (req'.pc = "done" /\ req'.response = "404")]_vars

\* A second terminate=X, for a subscription that had received an entry and
\* was closed by the first one, has been answered 404.
C23_Witness ==
  \E s \in Subscribers :
    /\ req.pc = "done"
    /\ req.response = "404"
    /\ req.q.terminate = <<s>>
    /\ eraser[s] = "done"
    /\ terminate_calls[s] = 1
    /\ Len(log[s]) > 0

\* The done_callback of the HTTP subscription `s` has run.
DoneCallbackFired(s) == eraser[s] \in {"started", "done"}

(* C24: the thread of an HTTP subscription that is over, whichever way its
   loop ended, has run the done_callback; it runs it once, and no callback
   on the subscriber follows it. *)
C24_DoneCallbackOnce ==
  /\ [](\A s \in Subscribers :
          (scope[s] = "http" /\ sub[s].pc \in {"ended", "aborted"}) => DoneCallbackFired(s))
  /\ [][\A s \in Subscribers :
          /\ DoneCallbackFired(s) => (log'[s] = log[s] /\ terminate_calls'[s] = terminate_calls[s])
          /\ eraser[s] = "done" => eraser'[s] = "done"]_vars

\* The HTTP thread's Subscribe has thrown: the constructor of the subscriber
\* thread instance failed at `data_`, the done_callback already stored.
ConstructionFailed == req.pc = "done" /\ req.response = "StreamInGracefulShutdown"

(* C25: when the construction of the subscriber thread instance fails after
   the done_callback was stored, the done_callback has been invoked and no
   subscriber thread runs. *)
C25_FailedConstructionCallsDone ==
  ConstructionFailed => (DoneCallbackFired(req.sub) /\ sub[req.sub].pc = "none")

\* The part of C25 the code does keep: no thread runs for the subscriber.
C25_NoThreadAfterFailedConstruction ==
  ConstructionFailed => (sub[req.sub].pc = "none" /\ req.sub \notin subscribers_map)

\* The calls of the type-match step made for subscriber `s`, in order.
PassedCalls(s) == SelectSeq(log[s], LAMBDA e : e[1] \in {"entry", "no_match"})

\* The entry at index `k` has gone through the type-match step of `s`.
Passed(s, k) == \E i \in 1..Len(PassedCalls(s)) : PassedCalls(s)[i][2] = k

\* The loop of `s` has been left.
LoopLeft(s) == sub[s].pc \in {"exit", "finished", "unlock", "ended"}

\* In this step Terminate() of `s` is called and answers Terminate: the loop is
\* left, and not by a callback that answered Done.
AnswersTerminate(s) ==
  /\ terminate_calls'[s] # terminate_calls[s]
  /\ LoopLeft(s)'
  /\ sub'[s].response # "Done"

(* C26: Terminate() of a subscriber is called at most once, and only with the
   termination signal raised; after the answer Terminate no callback is made;
   after the answer Wait the entries keep being passed in the order of their
   indexes, each entry of the stream eventually, until a callback answers
   Done. *)
C26_TerminateOnceThenDrain ==
  /\ [](\A s \in Subscribers :
          /\ terminate_calls[s] <= 1
          /\ terminate_calls[s] = 1 => terminate_signal[s]
          /\ \A i \in 1..Len(PassedCalls(s)) :
               PassedCalls(s)[i][2] = sub[s].begin_idx + i - 1)
  /\ [][\A s \in Subscribers :
          /\ terminate_calls'[s] # terminate_calls[s] => terminate_signal[s]
          /\ AnswersTerminate(s) => log'[s] = log[s]
          /\ LoopLeft(s) => (log'[s] = log[s] /\ terminate_calls'[s] = terminate_calls[s])]_vars
  /\ \A s \in Subscribers, k \in 0..(MaxEntries - 1) :
       (AnsweredWait(s) /\ Len(entries) > k) ~> (Passed(s, k) \/ LoopLeft(s))

\* Asked to terminate, the subscriber answered Wait and was then passed the
\* first entry of a snapshot of two.
C26_Witness ==
  \E s \in Subscribers :
    /\ terminate_calls[s] = 1
    /\ sub[s].terminate_sent
    /\ sub[s].pc = "iter"
    /\ sub[s].cursor = 1
    /\ Len(log[s]) = 1

\* The thread of `s` is in the wait branch: about to lock, holding the lock with
\* the predicate found false, blocked, or woken and about to look again.
InWaitBranch(s) == sub[s].pc \in {"wait_lock", "wait_block", "blocked", "woken"}

\* A termination of `s` has been requested and its signal is still to come:
\* by TerminateSubscription, or by the barrier of the data.
SignalPending(s) ==
  \/ \E c \in TermCallers : term[c] \in {<<"set", s>>, <<"signal", s>>}
  \/ (stream_dtor[1] = "barrier" /\ s \in stream_dtor[2] /\ scope[s] \in LiveScopes)

(* C27: no subscriber is blocked in the wait with its termination signal
   raised; and a subscriber that is in the wait branch when the barrier of the
   data is tripped or a termination is requested eventually has the request
   passed to its Terminate(), unless it has left the loop by then. *)
C27_SignalWakesWaiter ==
  /\ [](\A s \in Subscribers : sub[s].pc = "blocked" => ~terminate_signal[s])
  /\ \A s \in Subscribers :
       (InWaitBranch(s) /\ SignalPending(s)) ~> (terminate_calls[s] = 1 \/ LoopLeft(s))

\* The barrier has raised the signal of a subscriber nobody asked to terminate,
\* which is out of its block and about to look at the predicate again.
C27_Witness ==
  \E s \in Subscribers :
    /\ stream_dtor = <<"barrier", {}>>
    /\ ~termination_requested[s]
    /\ terminate_signal[s]
    /\ sub[s].pc = "woken"
    /\ terminate_calls[s] = 0

\* The done_callback of `s` is called in this step.
CallsDoneCallback(s) == eraser[s] = "none" /\ eraser'[s] = "started"

\* The entry of `s` is erased from subscribers_map in this step.
Erases(s) == s \in subscribers_map /\ s \notin subscribers_map'

(* C28: the done_callback of an HTTP subscription is called by the subscriber
   thread, which holds http_subscriptions->mutex while it does; the entry of
   subscribers_map is erased by the detached thread, in a step the subscriber
   thread does not take, with the mutex released and the subscriber thread
   over; whenever the detached thread can take the mutex the thread it joins
   has ended, and the entry is eventually erased. *)
C28_DoneCallbackThenErase ==
  /\ [](\A s \in Subscribers :
          (eraser[s] = "started" /\ http_mutex = "free") => sub[s].pc = "ended")
  /\ [][\A s \in Subscribers :
          /\ CallsDoneCallback(s) =>
               (sub[s].pc = "finished" /\ sub'[s].pc = "unlock" /\ http_mutex' = s)
          /\ Erases(s) =>
               /\ eraser[s] = "started" /\ eraser'[s] = "done"
               /\ http_mutex = "free"
               /\ sub[s].pc = "ended" /\ sub'[s] = sub[s]]_vars
  /\ \A s \in Subscribers :
       eraser[s] = "started" ~> (eraser[s] = "done" /\ s \notin subscribers_map)

\* An HTTP subscription nobody terminated was passed an entry, answered Done,
\* and its entry of the map has been erased and its scope destroyed.
C28_Witness ==
  \E s \in Subscribers :
    /\ eraser[s] = "done"
    /\ scope[s] = "destroyed"
    /\ s \notin subscribers_map
    /\ terminate_calls[s] = 0
    /\ Len(log[s]) > 0

(* C29: the thread of an HTTP subscription starts its job after the entry of
   subscribers_map for its id is there: while the HTTP thread is between
   Subscribe and the insertion, the subscriber has been passed nothing. *)
C29_MapEntryBeforeDelivery ==
  \A s \in Subscribers : (req.pc = "emplace" /\ req.sub = s) => log[s] = <<>>

(* C29, amended: the thread ends, not starts, by locking the mutex. While the
   HTTP thread is between Subscribe and the insertion the thread has not
   entered its last section, and the done_callback is called with the entry
   of subscribers_map in place. *)
C29_MapEntryBeforeLastSection ==
  /\ [](\A s \in Subscribers :
          (req.pc = "emplace" /\ req.sub = s) =>
            (eraser[s] = "none" /\ sub[s].pc \notin {"unlock", "ended"}))
  /\ [][\A s \in Subscribers : CallsDoneCallback(s) => s \in subscribers_map]_vars

\* The thread has passed an entry to the endpoint, was answered Done and waits
\* for the mutex at its end, the HTTP thread still before the insertion.
C29_Witness ==
  \E s \in Subscribers :
    /\ req.pc = "emplace"
    /\ req.sub = s
    /\ s \notin subscribers_map
    /\ Len(log[s]) > 0
    /\ sub[s].pc = "finished"

\* The head-only call is made on subscriber `s` in this step.
HeadCallMade(s) ==
  /\ log'[s] # log[s]
  /\ log'[s][Len(log'[s])][1] = "head"

\* The snapshot the round of `s` in progress works on: the one taken in this
\* step, or the one the loop over the entries was entered with.
SnapshotSize(s) == IF sub[s].pc = "iter" THEN sub[s].size ELSE Size
SnapshotHead(s) == IF sub[s].pc = "iter" THEN sub[s].snap_head ELSE CurrentHead

(* C30: while the size of the stream is at or below begin_idx the subscriber
   has been made no head-only call, and its wait predicate is true only when
   its termination signal is raised, whatever the head is; a head-only call is
   made with a snapshot whose size is above begin_idx and whose head, the one
   passed on, is above the head the loop had observed before and above the
   timestamp of the last entry of the snapshot. *)
C30_HeadOnlyAdvance ==
  /\ [](\A s \in Subscribers :
          (sub[s].pc # "none" /\ Size <= sub[s].begin_idx) =>
            /\ HeadCalls(s) = <<>>
            /\ WaitPredicate(s) <=> terminate_signal[s])
  /\ [][\A s \in Subscribers :
          HeadCallMade(s) =>
            /\ SnapshotSize(s) > sub[s].begin_idx
            /\ log'[s][Len(log'[s])][2] = SnapshotHead(s)
            /\ SnapshotHead(s) > sub[s].head
            /\ SnapshotHead(s) > entries[SnapshotSize(s)]]_vars

\* The head has moved past the one a subscriber had observed, the publisher has
\* notified and returned, and the subscriber, subscribed from an index the
\* stream has not reached, is blocked again.
C30_Witness ==
  \E s \in Subscribers :
    /\ sub[s].pc = "blocked"
    /\ Size <= sub[s].begin_idx
    /\ sub[s].head > InitialHead
    /\ CurrentHead > sub[s].head
    /\ \A th \in PubThreads : pub[th].pc = "idle"
    /\ ~terminate_signal[s]

\* The operation `op` has been applied to the Variant.
VariantDid(op) == variant.pc = "done" /\ variant.op = op

\* Copy- or move-construction from a Variant whose object is of a type the
\* destination's list does not have.
IncompatibleSource ==
  /\ variant.pc = "done"
  /\ variant.op \in {"Copy", "Move"}
  /\ variant.held # "null"
  /\ variant.held \notin variant.arg

\* What C31 says of Call and of the constructors.
VariantCallAndConstruct ==
  /\ (VariantDid("Call") /\ variant.held = "null") =>
       (variant.result = "UninitializedVariant" /\ variant.called = "none")
  /\ IncompatibleSource =>
       /\ variant.result = "IncompatibleVariantType"
       /\ variant.into = "none"
       /\ variant.object_ = variant.held

(* C31, as stated: Call on an empty Variant throws UninitializedVariant and
   the visitor is not called; Value<X> throws NoValueOfType whenever the type
   held is not X; constructing from a Variant that holds a type the
   destination's list does not have throws IncompatibleVariantType and the
   source keeps its object. *)
C31_VariantFailures ==
  /\ VariantCallAndConstruct
  /\ (VariantDid("Value") /\ variant.held # variant.arg) => variant.result = "NoValueOfType"

(* C31, amended: Value<X> throws NoValueOfType exactly when the Variant is
   empty or the type held is neither X nor derived from X. *)
C31_VariantFailures_Derived ==
  /\ VariantCallAndConstruct
  /\ VariantDid("Value") =>
       (variant.result = "NoValueOfType" <=>
          ~(variant.held = variant.arg \/ (variant.held = "Derived" /\ variant.arg = "Base")))

\* Move-construction of a Variant<Base> from a Variant<Base, Derived> that
\* holds a Derived has thrown, and the source still holds it.
C31_Witness ==
  /\ variant.pc = "done"
  /\ variant.op = "Move"
  /\ variant.typelist = {"Base", "Derived"}
  /\ variant.arg = {"Base"}
  /\ variant.held = "Derived"
  /\ variant.object_ = "Derived"
  /\ variant.result = "IncompatibleVariantType"

\* ~StreamImpl is in its pass over subscribers_map, or polling.
DestructorBody == stream_dtor[1] \in {"terminate_all", "poll"}

(* C32: once ~StreamImpl has started, with endpoints that answer Terminate,
   subscribers_map eventually is empty and the polling loop is left. *)
C32_DestructorCompletes ==
  DestructorBody ~> (stream_dtor[1] \in {"barrier", "returned"} /\ subscribers_map = {})

\* What the pass does give: a subscription that was registered when the pass
\* ran is asked to terminate, and its entry eventually erased.
C32_RegisteredAreErased ==
  \A s \in Subscribers :
    (stream_dtor[1] = "terminate_all" /\ s \in stream_dtor[2]) ~> s \notin subscribers_map

\* The thread of the HTTP server is in thread_.join() of the scope that was
\* not moved into subscribers_map, inside the locked block.
JoinsInLockedBlock ==
  /\ req.pc = "scope_dtor"
  /\ term["http"] = <<"return", req.sub>>

\* The join of the locked block cannot return: the thread it waits for has not
\* ended, and ends only by SubDone, which takes the mutex of the block.
ScopeJoinBlocked == req.pc = "scope_dtor" => ~Joined(req.sub) /\ http_mutex = "http"

\* The subscriber thread of `s` still has to lock http_subscriptions->mutex
\* (Thread(), line 361) before it can end.
NeedsHttpMutexToExit(s) ==
  sub[s].pc \in {"top", "snap", "iter", "wait_lock", "wait_block", "woken", "exit", "finished"}

\* The publishing thread `th` locks the publisher_mutex_ of a facade in this
\* step.
LocksPublisherMutex(th) ==
  \E f \in Facades : publisher_mutex_[f] # th /\ publisher_mutex_'[f] = th

\* No thread that holds publish_mutex locks http_subscriptions->mutex or a
\* publisher_mutex_, and a subscriber thread that waits for the former at
\* line 361 does not hold publish_mutex.
LockOrder ==
  /\ [][\A th \in Subscribers \cup PubThreads \cup {"http", "stream", "eraser"} :
          LocksHttpMutex(th) \/ LocksPublisherMutex(th) => publish_mutex # th]_vars
  /\ [](\A s \in Subscribers : sub[s].pc = "finished" => publish_mutex # s)

(* C33: the mutexes never deadlock. No thread waits for
   http_subscriptions->mutex or for publisher_mutex_ while it holds
   publish_mutex, and no thread waits in thread_.join() for a subscriber
   thread, holding http_subscriptions->mutex, while that thread still has to
   lock this mutex to end. *)
C33_NoMutexDeadlock ==
  /\ LockOrder
  /\ [](~(JoinsInLockedBlock /\ http_mutex = "http" /\ NeedsHttpMutexToExit(req.sub)))

\* The parts of C33 other than the join of the locked block: the order of the
\* locks, and the eraser, which joins a thread that has ended.
C33_LockOrderOnly ==
  /\ LockOrder
  /\ [](\A s \in Subscribers : eraser[s] = "done" => sub[s].pc = "ended")

\* The locked block of ServeDataViaHTTP is being executed.
InLockedBlock == http_mutex = "http" /\ req.pc \in {"emplace", "scope_dtor"}

(* C34: the block of ServeDataViaHTTP that subscribes under
   http_subscriptions->mutex comes to its end and releases the mutex, whether
   the id of the subscription is new or already in subscribers_map; when it has
   ended, the thread it started is owned by an entry of the map or has been
   joined. *)
C34_LockedBlockCompletes ==
  \A s \in Subscribers :
    (InLockedBlock /\ req.sub = s) ~> (http_mutex # "http" /\ (s \in subscribers_map \/ Joined(s)))

\* C34 for an id that is not in subscribers_map when the block begins.
C34_FreshIdCompletes ==
  \A s \in Subscribers :
    (InLockedBlock /\ req.sub = s /\ s \notin subscribers_map) ~> (http_mutex # "http" /\ s \in subscribers_map)

\* What DataAuthority() of facade `f` returns agrees with its publisher slot.
AuthorityMatchesSlot(f) == authority_[f] = "Own" <=> publisher_[f]

(* C35: whenever publisher_mutex_ of a constructed facade is free,
   DataAuthority() is Own exactly when the publisher slot of the facade holds
   the handle, whatever MovePublisherTo, AcquirePublisher, move constructions
   and move assignments came before. *)
C35_AuthorityIffHandle ==
  \A f \in Facades :
    constructed[f] /\ publisher_mutex_[f] = "free" => AuthorityMatchesSlot(f)

\* C35 step by step: every step but an AcquirePublisher that is given no
\* handle and succeeds keeps the agreement on every facade.
C35_KeptButByEmptyAcquire ==
  [][(\A f \in Facades : AuthorityMatchesSlot(f))
       /\ ~(Calls("acquirer", "AcquirePublisher") /\ ~PassesHandle /\ pub'["acquirer"].result = "ok")
     => \A f \in Facades : AuthorityMatchesSlot(f)']_vars

\* The subscriber thread of `s` invokes a callback of the subscriber in this
\* step: an entry, a head-only advance, a no-match response or Terminate().
InvokesCallback(s) == log'[s] # log[s] \/ terminate_calls'[s] # terminate_calls[s]

\* The thread of `s` is at a place of ThreadImpl from which the next thing it
\* does may be a callback.
BeforeCallback(s) == sub[s].pc \in {"top", "snap", "iter"}

(* C36: a subscriber thread does not hold publish_mutex when it invokes a
   callback of the subscriber, nor at any place of its loop other than the
   notifier wait: a subscriber that stays in a callback keeps nobody out of
   publish_mutex. *)
C36_NoCallbackUnderPublishMutex ==
  /\ [][\A s \in Subscribers : InvokesCallback(s) => publish_mutex # s /\ publish_mutex' # s]_vars
  /\ [](\A s \in Subscribers : publish_mutex = s => sub[s].pc = "wait_block")

\* A subscriber that has been called before is about to be called with an
\* entry, publish_mutex is free, and a Publish is under way.
C36_Witness ==
  \E s \in Subscribers :
    /\ sub[s].pc = "iter"
    /\ Len(log[s]) > 0
    /\ publish_mutex = "free"
    /\ pub["caller"].pc \notin {"idle", "done"}
    /\ pub["caller"].op = "Publish"

\* The calls of f_ when `s` is fed in one Feed(const std::string&) to a new
\* object that is then destroyed.
FedAtOnce(s) == AtDestruction([FeedLoop(NewLines, CStr(s)) EXCEPT !.fed = s]).calls

\* The lines of `s`: the text before each newline, in order, and the text
\* after the last newline when there is some.
RECURSIVE LinesOf(_, _)
LinesOf(s, line) ==
  IF s = <<>> THEN (IF line # <<>> THEN <<line>> ELSE <<>>)
  ELSE IF Head(s) = "LF" THEN <<line>> \o LinesOf(Tail(s), <<>>)
  ELSE LinesOf(Tail(s), Append(line, Head(s)))

\* No character of value zero was fed.
NulFree(s) == \A i \in 1..Len(s) : s[i] # "NUL"

(* C37: the calls of the callback up to and including destruction depend on
   the concatenation of the strings fed only, not on how it was cut into
   Feed calls: they are those of the same concatenation fed at once, one call
   per line ended by a newline, in order, and one more at destruction for a
   remainder that is not empty. *)
C37_SplitIndependent ==
  lines.pc = "destroyed" =>
    /\ lines.calls = FedAtOnce(lines.fed)
    /\ lines.calls = LinesOf(lines.fed, <<>>)

\* C37 for strings without a character of value zero.
C37_SplitIndependentNulFree ==
  lines.pc = "destroyed" /\ NulFree(lines.fed) =>
    /\ lines.calls = FedAtOnce(lines.fed)
    /\ lines.calls = LinesOf(lines.fed, <<>>)

\* What was fed in one piece and piece by piece differs for two strings with
\* the same concatenation, one fed with the zero inside a Feed.
C37_FedAtOnceOnly ==
  lines.pc = "destroyed" => lines.calls = FedAtOnce(lines.fed)
====
